---- MODULE Spec2Model ----
(***************************************************************************)
(* iZ-lib: the iZ sieves (sieve_iZ, sieve_iZm), the reference Sieve of     *)
(* Atkin, the VX-segment kernel (sieve_vx) and the random prime search     *)
(* (search_iZprime), modelled operation by operation from the C sources.   *)
(***************************************************************************)
EXTENDS Integers, Sequences, FiniteSets, TLC

VARIABLES pc,        \* position of the running code (which loop it is in)
          m_i,       \* test_sieve_integrity: index of the sieve model being run
          results,   \* test_sieve_integrity: the list each model returned
          n,         \* sieve_*: the upper limit n
          primes,    \* sieve_*: PRIMES_OBJ p_array[0 .. p_count-1]
          x5, x7,    \* working bitmaps of the iZ sieves
          n_bits,    \* sieve_atkin: its bitmap
          x,         \* loop variable x of the running sieve
          i,         \* loop variable i of the running sieve
          loc,       \* the other locals of the running function
          vx_assets, \* VX_ASSETS (vx, root_primes, base_x5, base_x7)
          vx_obj,    \* VX_OBJ (vx, y, p_gaps) plus the accepted candidates
          file,      \* testing_vx_io: the bytes of the file written
          vx_obj_read, \* testing_vx_io: the VX_OBJ that vx_read_file fills
          p_id,      \* search_iZprime: residue class -1 / +1
          vx,        \* search_iZprime: mpz_t vx
          tmp,       \* search_iZprime: mpz_t tmp
          found,     \* search_iZprime: int found
          attempts,  \* search_iZprime: int attempts
          tests,     \* search_iZprime: number of mpz_probab_prime_p calls made
          p,         \* search_iZprime: output mpz_t p
          args,      \* the arguments of the function under call
          ret,       \* what the function under call returned
          bit_size,  \* random_iZprime: int bit_size
          cores_num, \* random_iZprime: int cores_num
          fd,        \* random_iZprime: the bytes in the pipe, oldest first
          kids,      \* random_iZprime: the forked child processes pids[i]
          buf,       \* random_iZprime: char buf[str_size] after read()
          wrote      \* random_iZprime: the candidate written to the pipe first

sieveVars  == <<m_i, results, n, primes, n_bits>>
loopVars   == <<x5, x7, x, i, loc>>
ioVars     == <<file, vx_obj_read>>
vxVars     == <<vx_assets, vx_obj, ioVars>>
searchVars == <<p_id, vx, tmp, found, attempts, tests, p>>

callVars   == <<args, ret>>
randVars   == <<bit_size, cores_num, fd, kids, buf, wrote>>

vars == <<pc, sieveVars, loopVars, vxVars, searchVars, callVars, randVars>>

-----------------------------------------------------------------------------
(* Bounds of the model                                                     *)

MinSmallN == 10
MaxSmallN == 130
MinSegN   == 1000
MaxSegN   == 1100
\* sieve_vx: slab indices y = 0 .. MaxY
MaxY == 12
\* sieve_vx6_range: range_y = 1 .. MaxRangeY
MaxRangeY == 3
\* search_iZprime: attempts_limit, 1000000 in the code, scaled down
attempts_limit == 2
\* compute_max_vx_gmp: its table of primes is sieve_iZ(MaxVxPrimesN),
\* sieve_iZ(10000) in the code, scaled down
MaxVxPrimesN == 100
\* random_iZprime: bit_size = MinBitSize .. MaxBitSize, cores_num = 0 .. MaxCores
MinBitSize == 8
\* single calls: p <= MaxCallP, y <= MaxCallY, x <= MaxCallX, a <= MaxCallA,
\* m <= MaxCallM, bit_size <= MaxCallBits, n <= MaxCallN; iZ: x <= MaxCallIZ
\* and x within IZBoundarySpan of the largest x with 6x < 2^64
MaxCallP == 23
MaxCallY == 12
MaxCallX == 30
MaxCallA == 40
MaxCallM == 30
MaxCallBits == 24
MaxCallIZ == 20
IZBoundarySpan == 172
MaxCallN == 14
\* iZ_next_prime: bases 0 .. MaxNextBase and 6 vx - NextBoundarySpan ..
\* 6 vx + NextBoundarySpan
MaxNextBase == 130
NextBoundarySpan == 12
\* the reference next prime is looked for within MaxPrimeGap of the base
MaxPrimeGap == 40
MaxBitSize == 12
MaxCores == 2

-----------------------------------------------------------------------------
(* Arithmetic helpers                                                      *)

RECURSIVE ISqrtBetween(_, _, _)
ISqrtBetween(v, lo, hi) ==
    IF lo >= hi THEN lo
    ELSE LET mid == (lo + hi + 1) \div 2
         IN  IF mid * mid <= v THEN ISqrtBetween(v, mid, hi)
                               ELSE ISqrtBetween(v, lo, mid - 1)

\* floor(sqrt(v)): sqrt() of <math.h> truncated to an integer, mpz_sqrt
ISqrt(v) == ISqrtBetween(v, 0, IF v < 46340 THEN v ELSE 46340)

\* Reference primality (trial division): the oracle the results are compared to
IsPrime(v) == v >= 2 /\ \A d \in 2..ISqrt(v) : v % d # 0

Last(s) == s[Len(s)]

\* A list is strictly ascending
Ascending(s) == \A k \in 1..(Len(s) - 1) : s[k] < s[k + 1]

Elems(s) == {s[k] : k \in 1..Len(s)}

\* A list holds exactly the primes <= v, each once, in ascending order: what
\* a classic Sieve of Eratosthenes returns for v
IsPrimesUpTo(s, v) ==
    /\ Ascending(s)
    /\ Elems(s) = {k \in 2..v : IsPrime(k)}

NULL == <<-1>>

-----------------------------------------------------------------------------
(* Bit array (bitmap.h).  A BITMAP is its size and the set of set bits.    *)

bitmap_create(size) == [size |-> size, bits |-> {}]

bitmap_set_all(b) == [b EXCEPT !.bits = 0..(b.size - 1)]

bitmap_get_bit(b, idx) == idx \in b.bits

bitmap_set_bit(b, idx) == [b EXCEPT !.bits = @ \cup {idx}]

bitmap_clear_bit(b, idx) == [b EXCEPT !.bits = @ \ {idx}]

\* clears start_idx, start_idx + p, start_idx + 2p, ... while < limit
bitmap_clear_mod_p(b, q, start_idx, limit) ==
    [b EXCEPT !.bits =
        {k \in @ : ~(k >= start_idx /\ k < limit /\ (k - start_idx) % q = 0)}]

bitmap_clone(b) == b

\* ranges [start + j*seg, start + (j+1)*seg), j = 1..k-1, become copies of
\* [start, start + seg)
bitmap_duplicate_segment(b, start_idx, segment_size, k) ==
    [b EXCEPT !.bits =
        {j \in 0..(b.size - 1) :
            IF j >= start_idx + segment_size /\ j < start_idx + k * segment_size
            THEN (start_idx + ((j - start_idx) % segment_size)) \in @
            ELSE j \in @}]

-----------------------------------------------------------------------------
(* Residue algebra (iZ.c)                                                  *)

iZ(xx, id) == 6 * xx + id

s_primes == <<5, 7, 11, 13, 17, 19, 23, 29, 31, 37, 41, 43, 47>>

\* while (vx * s_primes[i] < (x_n / 2) && i < vx_limit) { vx *= s_primes[i]; i++; }
RECURSIVE compute_limited_vx_loop(_, _, _, _)
compute_limited_vx_loop(v, k, x_n, vx_limit) ==
    IF v * s_primes[k + 1] < (x_n \div 2) /\ k < vx_limit
    THEN compute_limited_vx_loop(v * s_primes[k + 1], k + 1, x_n, vx_limit)
    ELSE v

compute_limited_vx(x_n, vx_limit) == compute_limited_vx_loop(35, 2, x_n, vx_limit)

\* the pattern of 5 and 7 on indices 1..35
construct_vx2(bm) ==
    [x5 |-> [bm.x5 EXCEPT !.bits = @ \cup
                {k \in 1..35 : ((k - 1) % 5) # 0 /\ ((k + 1) % 7) # 0}],
     x7 |-> [bm.x7 EXCEPT !.bits = @ \cup
                {k \in 1..35 : ((k + 1) % 5) # 0 /\ ((k - 1) % 7) # 0}]]

\* construct_iZm_step without the bitmap_clear_bit of q's own index
construct_iZm_step_keep_q(bm, q, current_size) ==
    LET xq  == (q + 1) \div 6
        d5  == bitmap_duplicate_segment(bm.x5, 1, current_size, q)
        d7  == bitmap_duplicate_segment(bm.x7, 1, current_size, q)
        new == current_size * q
    IN  IF (q % 6) > 1
        THEN [x5 |-> bitmap_clear_mod_p(d5, q, q * xq + xq, new + 1),
              x7 |-> bitmap_clear_mod_p(d7, q, q * xq - xq, new + 1)]
        ELSE [x5 |-> bitmap_clear_mod_p(d5, q, q * xq - xq, new + 1),
              x7 |-> bitmap_clear_mod_p(d7, q, q * xq + xq, new + 1)]

\* one iteration of construct_iZm_segment's while loop, for q = s_primes[idx]
construct_iZm_step(bm, q, current_size) ==
    LET xq  == (q + 1) \div 6
        d5  == bitmap_duplicate_segment(bm.x5, 1, current_size, q)
        d7  == bitmap_duplicate_segment(bm.x7, 1, current_size, q)
        new == current_size * q
    IN  IF (q % 6) > 1
        THEN [x5 |-> bitmap_clear_mod_p(bitmap_clear_bit(d5, xq), q, q * xq + xq, new + 1),
              x7 |-> bitmap_clear_mod_p(d7, q, q * xq - xq, new + 1)]
        ELSE [x5 |-> bitmap_clear_mod_p(d5, q, q * xq - xq, new + 1),
              x7 |-> bitmap_clear_mod_p(bitmap_clear_bit(d7, xq), q, q * xq + xq, new + 1)]

\* while (vx % s_primes[idx] == 0)
RECURSIVE construct_iZm_loop(_, _, _, _)
construct_iZm_loop(bm, vxs, idx, current_size) ==
    IF vxs % s_primes[idx + 1] = 0
    THEN construct_iZm_loop(construct_iZm_step(bm, s_primes[idx + 1], current_size),
                            vxs, idx + 1, current_size * s_primes[idx + 1])
    ELSE bm

\* construct_iZm_segment(vx, x5, x7) on the two bitmaps handed in
construct_iZm_segment(vxs, bm) == construct_iZm_loop(construct_vx2(bm), vxs, 2, 35)

\* 2^e mod q
RECURSIVE Pow2Mod(_, _)
Pow2Mod(e, q) == IF e = 0 THEN 1 % q ELSE (2 * Pow2Mod(e - 1, q)) % q

\* (a - b) % q in uint64_t arithmetic: a - b wraps modulo 2^64 when a < b
USubMod(a, b, q) ==
    IF a >= b THEN (a - b) % q
    ELSE (Pow2Mod(64, q) + q - ((b - a) % q)) % q

\* x_p normalised to the matrix: x_p if p_id = matrix_id, else p - x_p
normalized_x_p(matrix_id, q) ==
    LET x_p  == (q + 1) \div 6
        q_id == IF q % 6 = 1 THEN 1 ELSE -1
    IN  IF matrix_id = q_id THEN x_p ELSE q - x_p

solve_for_x(matrix_id, q, vxs, yy) ==
    q - USubMod(vxs * yy, normalized_x_p(matrix_id, q), q)

\* mpz arithmetic: mpz_mod_ui gives the non-negative residue
solve_for_x_gmp(matrix_id, q, vxs, yy) ==
    q - ((vxs * yy - normalized_x_p(matrix_id, q)) % q)

-----------------------------------------------------------------------------
(* PRIMES_OBJ (primes_obj.c)                                               *)

primes_obj_append(ps, q) == Append(ps, q)

\* DropOvershoot without the edge-case handling
DropOvershoot_keep(ps, lim) == ps

\* "Handle edge case: if last prime > n, remove it": p_count--
DropOvershoot(ps, lim) ==
    IF Last(ps) > lim THEN SubSeq(ps, 1, Len(ps) - 1) ELSE ps

-----------------------------------------------------------------------------
(* sieve_iZ (sieve_iZ.c)                                                   *)

\* the iZ- half of one iteration of the main loop
sieve_iZ_x5(st, xx, x_n, n_sqrt) ==
    IF bitmap_get_bit(st.x5, xx)
    THEN LET q == iZ(xx, -1)
         IN  [primes |-> primes_obj_append(st.primes, q),
              x5 |-> IF q < n_sqrt
                     THEN bitmap_clear_mod_p(st.x5, q, q * xx + xx, x_n)
                     ELSE st.x5,
              x7 |-> IF q < n_sqrt
                     THEN bitmap_clear_mod_p(st.x7, q, q * xx - xx, x_n)
                     ELSE st.x7]
    ELSE st

\* the iZ+ half of one iteration of the main loop
sieve_iZ_x7(st, xx, x_n, n_sqrt) ==
    IF bitmap_get_bit(st.x7, xx)
    THEN LET q == iZ(xx, 1)
         IN  [primes |-> primes_obj_append(st.primes, q),
              x5 |-> IF q < n_sqrt
                     THEN bitmap_clear_mod_p(st.x5, q, q * xx - xx, x_n)
                     ELSE st.x5,
              x7 |-> IF q < n_sqrt
                     THEN bitmap_clear_mod_p(st.x7, q, q * xx + xx, x_n)
                     ELSE st.x7]
    ELSE st

\* one iteration of: for (x = 1; x < x_n; x++)
sieve_iZ_body(st, xx, x_n, n_sqrt) ==
    sieve_iZ_x7(sieve_iZ_x5(st, xx, x_n, n_sqrt), xx, x_n, n_sqrt)

\* the loop continues while x < x_n
sieve_iZ_cond(xx, x_n) == xx < x_n

RECURSIVE sieve_iZ_loop(_, _, _, _)
sieve_iZ_loop(st, xx, x_n, n_sqrt) ==
    IF sieve_iZ_cond(xx, x_n)
    THEN LET s == sieve_iZ_body(st, xx, x_n, n_sqrt)
         IN  IF s.primes # <<>> THEN sieve_iZ_loop(s, xx + 1, x_n, n_sqrt) ELSE s
    ELSE st

\* the state before the main loop: 2, 3 appended, both bitmaps all set
sieve_iZ_init(m) ==
    [primes |-> <<2, 3>>,
     x5 |-> bitmap_set_all(bitmap_create(m \div 6 + 1 + 1)),
     x7 |-> bitmap_set_all(bitmap_create(m \div 6 + 1 + 1))]

\* sieve_iZ without the n < 10 return
sieve_iZ_unguarded(m) ==
    LET x_n    == m \div 6 + 1
        n_sqrt == ISqrt(m) + 1
        st     == sieve_iZ_loop(sieve_iZ_init(m), 1, x_n, n_sqrt)
    IN  DropOvershoot(st.primes, m)

\* sieve_iZ(n) as one call (used where the code calls it as a subroutine)
sieve_iZ(m) ==
    IF m < 10 THEN NULL
    ELSE LET x_n    == m \div 6 + 1
             n_sqrt == ISqrt(m) + 1
             st     == sieve_iZ_loop(sieve_iZ_init(m), 1, x_n, n_sqrt)
         IN  DropOvershoot(st.primes, m)

-----------------------------------------------------------------------------
(* sieve_iZm (sieve_iZ.c)                                                  *)

\* for (i = 0; i < vx_limit; i++) if (vx % s_primes[i] == 0) append else break
RECURSIVE presieved_primes(_, _, _)
presieved_primes(vxs, k, vx_limit) ==
    IF k < vx_limit /\ vxs % s_primes[k + 1] = 0
    THEN <<s_primes[k + 1]>> \o presieved_primes(vxs, k + 1, vx_limit)
    ELSE <<>>

\* the iZ- half of one iteration of the first-segment loop
sieve_iZm_seg0_x5(st, xx, vxs) ==
    IF bitmap_get_bit(st.x5, xx)
    THEN LET q == iZ(xx, -1)
         IN  [primes |-> primes_obj_append(st.primes, q),
              x5 |-> IF (q * q) \div 6 < vxs
                     THEN bitmap_clear_mod_p(st.x5, q, q * xx + xx, vxs)
                     ELSE st.x5,
              x7 |-> IF (q * q) \div 6 < vxs
                     THEN bitmap_clear_mod_p(st.x7, q, q * xx - xx, vxs)
                     ELSE st.x7]
    ELSE st

\* the iZ+ half of one iteration of the first-segment loop
sieve_iZm_seg0_x7(st, xx, vxs) ==
    IF bitmap_get_bit(st.x7, xx)
    THEN LET q == iZ(xx, 1)
         IN  [primes |-> primes_obj_append(st.primes, q),
              x5 |-> IF (q * q) \div 6 < vxs
                     THEN bitmap_clear_mod_p(st.x5, q, q * xx - xx, vxs)
                     ELSE st.x5,
              x7 |-> IF (q * q) \div 6 < vxs
                     THEN bitmap_clear_mod_p(st.x7, q, q * xx + xx, vxs)
                     ELSE st.x7]
    ELSE st

\* for (i = start_i; i < p_count; i++): mark the composites of the root
\* primes in the slab y; break once p*p/6 > yvx + limit; the size test
\* (always true: x5 and x7 are clones of equally sized bases) only makes each
\* iteration's bitmaps evaluated in turn
RECURSIVE sieve_iZm_mark(_, _, _, _, _, _, _)
sieve_iZm_mark(bm, ps, k, vxs, yy, yvx, limit) ==
    IF k < Len(ps)
    THEN LET q == ps[k + 1]
         IN  IF (q * q) \div 6 > (yvx + limit) THEN bm
             ELSE LET nx5 == bitmap_clear_mod_p(bm.x5, q, solve_for_x(-1, q, vxs, yy), limit)
                      nx7 == bitmap_clear_mod_p(bm.x7, q, solve_for_x(1, q, vxs, yy), limit)
                  IN  IF nx5.size = nx7.size
                      THEN sieve_iZm_mark([x5 |-> nx5, x7 |-> nx7],
                                          ps, k + 1, vxs, yy, yvx, limit)
                      ELSE bm
    ELSE bm

\* one iteration of: for (x = 2; x <= limit; x++) collect unmarked x
sieve_iZm_collect(ps, bm, xx, yvx) ==
    LET ps5 == IF bitmap_get_bit(bm.x5, xx)
               THEN primes_obj_append(ps, iZ(xx + yvx, -1)) ELSE ps
    IN  IF bitmap_get_bit(bm.x7, xx)
        THEN primes_obj_append(ps5, iZ(xx + yvx, 1)) ELSE ps5

-----------------------------------------------------------------------------
(* sieve_atkin (sieve.c)                                                   *)

\* the three quadratic forms for one (x, y)
atkin_xy(b, xx, yy, m) ==
    LET n1 == 4 * xx * xx + yy * yy
        b1 == IF n1 <= m /\ (n1 % 12 = 1 \/ n1 % 12 = 5)
              THEN bitmap_set_bit(b, n1) ELSE b
        n2 == 3 * xx * xx + yy * yy
        b2 == IF n2 <= m /\ n2 % 12 = 7 THEN bitmap_set_bit(b1, n2) ELSE b1
        n3 == 3 * xx * xx - yy * yy
    IN  IF xx > yy /\ n3 <= m /\ n3 % 12 = 11 THEN bitmap_set_bit(b2, n3) ELSE b2

\* for (y = 1; y < n_sqrt; ++y); the size test (always true: setting a bit
\* keeps the size) only makes each iteration's bitmap evaluated in turn
RECURSIVE atkin_row(_, _, _, _, _)
atkin_row(b, xx, yy, n_sqrt, m) ==
    IF yy < n_sqrt
    THEN LET nb == atkin_xy(b, xx, yy, m)
         IN  IF nb.size = b.size THEN atkin_row(nb, xx, yy + 1, n_sqrt, m) ELSE nb
    ELSE b

\* one iteration of: for (i = 5; i <= n_sqrt; i += 2)
atkin_sieve(b, k, m) ==
    IF bitmap_get_bit(b, k) THEN bitmap_clear_mod_p(b, 2 * k, k * k, m + 1) ELSE b

-----------------------------------------------------------------------------
(* test_sieve_integrity: runs each sieve model on the same n and keeps     *)
(* what each returned                                                      *)

\* the models of models_list the comparison is about, in list order
Models == <<"sieve_atkin", "sieve_iZ", "sieve_iZm">>

NoBitmap == bitmap_create(0)

NoLoc == [x_n |-> 0, n_sqrt |-> 0, vx |-> 0, start_i |-> 0,
          base_x5 |-> NoBitmap, base_x7 |-> NoBitmap,
          max_y |-> 0, limit |-> 0, yvx |-> 0, y |-> 0,
          root_limit |-> 0, is_large_limit |-> 0, gap |-> 0,
          live |-> 0]

\* no function under call, no random_iZprime running
NoCall == args = <<>> /\ ret = <<>>
NoRandom ==
    /\ bit_size = 0 /\ cores_num = 0 /\ fd = <<>> /\ kids = <<>>
    /\ buf = <<>> /\ wrote = <<>>

NoAssets == [vx |-> 0, root_primes |-> <<>>, base_x5 |-> NoBitmap, base_x7 |-> NoBitmap]

NoVxObj == [vx |-> 0, y |-> 0, p_gaps |-> <<>>, cap |-> 0, cand |-> <<>>, walk |-> <<>>,
            sha256 |-> <<>>]

SieveInputs == (MinSmallN..MaxSmallN) \cup (MinSegN..MaxSegN)

InitSieve ==
    /\ NoCall /\ NoRandom
    /\ pc = "harness"
    /\ m_i = 1
    /\ results = [a \in {} |-> <<>>]
    /\ n \in SieveInputs
    /\ primes = <<>>
    /\ x5 = NoBitmap /\ x7 = NoBitmap /\ n_bits = NoBitmap
    /\ x = 0 /\ i = 0 /\ loc = NoLoc
    /\ vx_assets = NoAssets /\ vx_obj = NoVxObj
    /\ file = <<>> /\ vx_obj_read = NoVxObj
    /\ p_id = 0 /\ vx = 0 /\ tmp = 0 /\ found = 0 /\ attempts = 0
    /\ tests = 0 /\ p = 0

\* the harness stores what the model returned and moves to the next model
Returned(name, ps) ==
    /\ results' = (name :> ps) @@ results
    /\ m_i' = m_i + 1
    /\ pc' = "harness"

Running(name) == pc = "harness" /\ m_i <= Len(Models) /\ Models[m_i] = name

(* ---- sieve_atkin ---- *)

Call_sieve_atkin ==
    /\ Running("sieve_atkin")
    /\ n >= 10
    /\ primes' = <<2, 3>>
    /\ n_bits' = bitmap_create(n + 1)
    /\ loc' = [NoLoc EXCEPT !.n_sqrt = ISqrt(n) + 1]
    /\ x' = 1 /\ i' = 0
    /\ pc' = "atkin_mark"
    /\ UNCHANGED <<m_i, results, n, x5, x7, vxVars, searchVars, callVars, randVars>>

\* one x of step 1: the inner y loop over the three Atkin conditions
Atkin_mark ==
    /\ pc = "atkin_mark" /\ x < loc.n_sqrt
    /\ n_bits' = atkin_row(n_bits, x, 1, loc.n_sqrt, n)
    /\ x' = x + 1
    /\ UNCHANGED <<pc, m_i, results, n, primes, x5, x7, i, loc, vxVars, searchVars, callVars, randVars>>

Atkin_mark_done ==
    /\ pc = "atkin_mark" /\ ~(x < loc.n_sqrt)
    /\ i' = 5
    /\ pc' = "atkin_sieve"
    /\ UNCHANGED <<sieveVars, x5, x7, x, loc, vxVars, searchVars, callVars, randVars>>

\* one i of step 2
Atkin_sieve ==
    /\ pc = "atkin_sieve" /\ i <= loc.n_sqrt
    /\ n_bits' = atkin_sieve(n_bits, i, n)
    /\ i' = i + 2
    /\ UNCHANGED <<pc, m_i, results, n, primes, x5, x7, x, loc, vxVars, searchVars, callVars, randVars>>

Atkin_sieve_done ==
    /\ pc = "atkin_sieve" /\ ~(i <= loc.n_sqrt)
    /\ i' = 5
    /\ pc' = "atkin_collect"
    /\ UNCHANGED <<sieveVars, x5, x7, x, loc, vxVars, searchVars, callVars, randVars>>

\* one i of step 3
Atkin_collect ==
    /\ pc = "atkin_collect" /\ i <= n
    /\ primes' = IF bitmap_get_bit(n_bits, i) THEN primes_obj_append(primes, i)
                                              ELSE primes
    /\ i' = i + 2
    /\ UNCHANGED <<pc, m_i, results, n, n_bits, x5, x7, x, loc, vxVars, searchVars, callVars, randVars>>

Return_sieve_atkin ==
    /\ pc = "atkin_collect" /\ ~(i <= n)
    /\ Returned("sieve_atkin", primes)
    /\ n_bits' = NoBitmap
    /\ UNCHANGED <<n, primes, loopVars, vxVars, searchVars, callVars, randVars>>

(* ---- sieve_iZ ---- *)

Call_sieve_iZ ==
    /\ Running("sieve_iZ")
    /\ n >= 10
    /\ LET st == sieve_iZ_init(n)
       IN  primes' = st.primes /\ x5' = st.x5 /\ x7' = st.x7
    /\ loc' = [NoLoc EXCEPT !.x_n = n \div 6 + 1, !.n_sqrt = ISqrt(n) + 1]
    /\ x' = 1
    /\ pc' = "iZ_loop"
    /\ UNCHANGED <<m_i, results, n, n_bits, i, vxVars, searchVars, callVars, randVars>>

\* one iteration of the main loop
Step_sieve_iZ ==
    /\ pc = "iZ_loop" /\ sieve_iZ_cond(x, loc.x_n)
    /\ LET st == sieve_iZ_body([primes |-> primes, x5 |-> x5, x7 |-> x7],
                               x, loc.x_n, loc.n_sqrt)
       IN  primes' = st.primes /\ x5' = st.x5 /\ x7' = st.x7
    /\ x' = x + 1
    /\ UNCHANGED <<pc, m_i, results, n, n_bits, i, loc, vxVars, searchVars, callVars, randVars>>

\* after the loop: free the bitmaps, drop the overshoot, trim, return
Return_sieve_iZ ==
    /\ pc = "iZ_loop" /\ ~sieve_iZ_cond(x, loc.x_n)
    /\ primes' = DropOvershoot(primes, n)
    /\ Returned("sieve_iZ", primes')
    /\ x5' = NoBitmap /\ x7' = NoBitmap
    /\ UNCHANGED <<n, n_bits, x, i, loc, vxVars, searchVars, callVars, randVars>>

(* ---- sieve_iZm ---- *)

\* n < 1000: return sieve_iZ(n)
Call_sieve_iZm_small ==
    /\ Running("sieve_iZm")
    /\ n < 1000
    /\ primes' = sieve_iZ(n)
    /\ Returned("sieve_iZm", primes')
    /\ UNCHANGED <<n, n_bits, loopVars, vxVars, searchVars, callVars, randVars>>

\* steps 1 and 2: initialisation and the pre-sieved base segment; loc.live
\* counts the bitmaps the call has created (bitmap_create, bitmap_clone) and
\* not yet handed to bitmap_free: here base_x5, base_x7 and the clones x5, x7
Call_sieve_iZm ==
    /\ Running("sieve_iZm")
    /\ ~(n < 1000)
    /\ LET x_n  == n \div 6 + 1
           vxs  == compute_limited_vx(x_n, 6)
           pre  == presieved_primes(vxs, 0, 6)
           base == construct_iZm_segment(vxs,
                       [x5 |-> bitmap_create(vxs + 10), x7 |-> bitmap_create(vxs + 10)])
       IN  /\ primes' = <<2, 3>> \o pre
           /\ loc' = [NoLoc EXCEPT !.x_n = x_n, !.vx = vxs,
                                   !.start_i = 2 + Len(pre),
                                   !.base_x5 = base.x5, !.base_x7 = base.x7,
                                   !.live = 4]
           /\ x5' = bitmap_clone(base.x5)
           /\ x7' = bitmap_clone(base.x7)
    /\ x' = 2
    /\ pc' = "iZm_seg0"
    /\ UNCHANGED <<m_i, results, n, n_bits, i, vxVars, searchVars, callVars, randVars>>

\* step 3: one x of the first segment
Step_sieve_iZm_seg0 ==
    /\ pc = "iZm_seg0" /\ x <= loc.vx
    /\ LET st == sieve_iZm_seg0_x7(
                    sieve_iZm_seg0_x5([primes |-> primes, x5 |-> x5, x7 |-> x7],
                                      x, loc.vx),
                    x, loc.vx)
       IN  primes' = st.primes /\ x5' = st.x5 /\ x7' = st.x7
    /\ x' = x + 1
    /\ UNCHANGED <<pc, m_i, results, n, n_bits, i, loc, vxVars, searchVars, callVars, randVars>>

\* step 4 set-up: max_y, limit, yvx and y = 1
Done_sieve_iZm_seg0 ==
    /\ pc = "iZm_seg0" /\ ~(x <= loc.vx)
    /\ loc' = [loc EXCEPT !.max_y = loc.x_n \div loc.vx, !.limit = loc.vx,
                          !.yvx = loc.vx, !.y = 1]
    /\ pc' = "iZm_slab"
    /\ UNCHANGED <<sieveVars, x5, x7, x, i, vxVars, searchVars, callVars, randVars>>

\* a slab y: x5 and x7 are assigned two new clones of the base bitmaps (the
\* bitmaps they pointed to are not freed), set the limit, mark the root primes
Mark_sieve_iZm_slab ==
    /\ pc = "iZm_slab" /\ loc.y <= loc.max_y
    /\ LET limit == IF loc.y = loc.max_y THEN loc.x_n % loc.vx ELSE loc.limit
           bm    == sieve_iZm_mark([x5 |-> bitmap_clone(loc.base_x5),
                                    x7 |-> bitmap_clone(loc.base_x7)],
                                   primes, loc.start_i, loc.vx, loc.y, loc.yvx, limit)
       IN  /\ loc' = [loc EXCEPT !.limit = limit, !.live = @ + 2]
           /\ x5' = bm.x5 /\ x7' = bm.x7
    /\ x' = 2
    /\ pc' = "iZm_collect"
    /\ UNCHANGED <<sieveVars, i, vxVars, searchVars, callVars, randVars>>

\* one x of the collection loop of slab y
Collect_sieve_iZm_slab ==
    /\ pc = "iZm_collect" /\ x <= loc.limit
    /\ primes' = sieve_iZm_collect(primes, [x5 |-> x5, x7 |-> x7], x, loc.yvx)
    /\ x' = x + 1
    /\ UNCHANGED <<pc, m_i, results, n, n_bits, x5, x7, i, loc, vxVars, searchVars, callVars, randVars>>

\* end of slab y: yvx += vx; y++
Done_sieve_iZm_slab ==
    /\ pc = "iZm_collect" /\ ~(x <= loc.limit)
    /\ loc' = [loc EXCEPT !.yvx = loc.yvx + loc.vx, !.y = loc.y + 1]
    /\ pc' = "iZm_slab"
    /\ UNCHANGED <<sieveVars, x5, x7, x, i, vxVars, searchVars, callVars, randVars>>

\* step 5 and the tail: bitmap_free of base_x5, base_x7 and of the bitmaps
\* x5, x7 point to, drop the overshoot, trim, return
Return_sieve_iZm ==
    /\ pc = "iZm_slab" /\ ~(loc.y <= loc.max_y)
    /\ primes' = DropOvershoot(primes, n)
    /\ Returned("sieve_iZm", primes')
    /\ x5' = NoBitmap /\ x7' = NoBitmap
    /\ loc' = [loc EXCEPT !.live = @ - 4]
    /\ UNCHANGED <<n, n_bits, x, i, vxVars, searchVars, callVars, randVars>>

NextSieve ==
    \/ Call_sieve_atkin \/ Atkin_mark \/ Atkin_mark_done \/ Atkin_sieve
    \/ Atkin_sieve_done \/ Atkin_collect \/ Return_sieve_atkin
    \/ Call_sieve_iZ \/ Step_sieve_iZ \/ Return_sieve_iZ
    \/ Call_sieve_iZm_small \/ Call_sieve_iZm \/ Step_sieve_iZm_seg0
    \/ Done_sieve_iZm_seg0 \/ Mark_sieve_iZm_slab \/ Collect_sieve_iZm_slab
    \/ Done_sieve_iZm_slab \/ Return_sieve_iZm

SpecSieve == InitSieve /\ [][NextSieve]_vars

\* every model has returned
AllReturned == pc = "harness" /\ m_i > Len(Models)

-----------------------------------------------------------------------------
(* Big-integer backend (GMP)                                               *)

\* mpz_probab_prime_p(v, reps): 0 for a composite, 1 (probably prime) or
\* 2 (definitely prime) for a prime
mpz_probab_prime_p(v) == IF IsPrime(v) THEN {1, 2} ELSE {0}

RECURSIVE mpz_gcd(_, _)
mpz_gcd(a, b) == IF b = 0 THEN a ELSE mpz_gcd(b, a % b)

\* mpz_get_str(NULL, 10, v): the decimal digits of v >= 0 as ASCII bytes
RECURSIVE mpz_get_str(_)
mpz_get_str(v) ==
    IF v < 10 THEN <<48 + v>>
    ELSE Append(mpz_get_str(v \div 10), 48 + (v % 10))

\* a byte array holds a terminating NUL
HasNul(b) == \E k \in 1..Len(b) : b[k] = 0

\* the C string that starts a NUL-holding byte array
CStr(b) ==
    LET z == CHOOSE k \in 1..Len(b) : b[k] = 0 /\ \A j \in 1..(k - 1) : b[j] # 0
    IN  SubSeq(b, 1, z - 1)

\* the value of a string of decimal digits
RECURSIVE DecValue(_)
DecValue(str) ==
    IF str = <<>> THEN 0
    ELSE 10 * DecValue(SubSeq(str, 1, Len(str) - 1)) + (str[Len(str)] - 48)

-----------------------------------------------------------------------------
(* VX_OBJ / VX_ASSETS (vx_obj.c) and sieve_vx (sieve_iZ.c)                 *)

\* the slab sizes of the model: the primorials 5*7 and 5*7*11
VxSizes == {35, 385}

vx_assets_init(vxs) ==
    LET base == construct_iZm_segment(vxs,
                    [x5 |-> bitmap_create(vxs + 10), x7 |-> bitmap_create(vxs + 10)])
    IN  [vx |-> vxs, root_primes |-> sieve_iZ(vxs),
         base_x5 |-> base.x5, base_x7 |-> base.x7]

\* cap, cand and walk are not fields of VX_OBJ: cap is the allocated length
\* of p_gaps, cand lists the candidates whose gap
\* was appended, walk the values test_vx_p_gaps reaches by adding the stored
\* gaps to base = iZ(vx * y, 1)
\* p_gaps = malloc(vx / 2 * GAP_SIZE): room for cap = vx / 2 gaps; sha256 is
\* <<>> until a hash is computed or read
vx_init(vxs, yy) ==
    [vx |-> vxs, y |-> yy, p_gaps |-> <<>>, cap |-> vxs \div 2,
     cand |-> <<>>, walk |-> <<>>, sha256 |-> <<>>]

\* p_gaps[p_count++] = gap, p_gaps being an array of uint16_t
vx_append_p_gap(obj, gap, c) ==
    LET stored == gap % 65536
        from   == IF obj.walk = <<>> THEN 6 * (obj.vx * obj.y) + 1 ELSE Last(obj.walk)
    IN  [obj EXCEPT !.p_gaps = Append(@, stored),
                    !.cand   = Append(@, c),
                    !.walk   = Append(@, from + stored)]

\* one half (id = -1: x5, id = +1: x7) of an iteration of the collection loop:
\* st = [obj, gap], the gap already incremented by 4 or 2
sieve_vx_half(st, bit, id, xx, yvx, is_large_limit) ==
    IF bit
    THEN LET c        == iZ(yvx + xx, id)
             is_prime == IF is_large_limit = 1 THEN mpz_probab_prime_p(c) # {0}
                                               ELSE TRUE
         IN  IF is_prime THEN [obj |-> vx_append_p_gap(st.obj, st.gap, c), gap |-> 0]
                         ELSE st
    ELSE st

\* one iteration of: for (x = 1; x <= vx; x++)
sieve_vx_collect(obj, gap, b5, b7, xx, yvx, is_large_limit) ==
    LET s1 == sieve_vx_half([obj |-> obj, gap |-> gap + 4],
                            bitmap_get_bit(b5, xx), -1, xx, yvx, is_large_limit)
    IN  sieve_vx_half([obj |-> s1.obj, gap |-> s1.gap + 2],
                      bitmap_get_bit(b7, xx), 1, xx, yvx, is_large_limit)

\* sieve_vx6_range(start_y, range_y) up to its first call of sieve_vx:
\* vx_assets_init(vx), y = start_y, vx_obj_list[0] = vx_init(vx, y); results
\* is vx_obj_list[0 .. i-1]; testing_vx_io up to its call of sieve_vx:
\* vx_obj_write = vx_init(vx, y), vx_assets_init(vx)
VxInputs ==
    [fn : {"sieve_vx6_range"}, start_y : 0..MaxY, range_y : 1..MaxRangeY]
      \cup [fn : {"testing_vx_io"}, start_y : 0..MaxY, range_y : {1}]

InitVX ==
    /\ NoRandom
    /\ pc = "vx_call"
    /\ args \in VxInputs
    /\ \E vxs \in VxSizes :
          /\ vx_obj = vx_init(vxs, args.start_y)
          /\ vx_assets = vx_assets_init(vxs)
    /\ file = <<>> /\ vx_obj_read = NoVxObj
    /\ ret = <<>>
    /\ m_i = 1 /\ results = <<>> /\ n = 0 /\ primes = <<>>
    /\ x5 = NoBitmap /\ x7 = NoBitmap /\ n_bits = NoBitmap
    /\ x = 0 /\ i = 0 /\ loc = NoLoc
    /\ p_id = 0 /\ vx = 0 /\ tmp = 0 /\ found = 0 /\ attempts = 0
    /\ tests = 0 /\ p = 0

\* step 1: clone the base bitmaps, compute yvx, root_limit, is_large_limit
Call_sieve_vx ==
    /\ pc = "vx_call"
    /\ x5' = bitmap_clone(vx_assets.base_x5)
    /\ x7' = bitmap_clone(vx_assets.base_x7)
    /\ LET yvx        == vx_obj.y * vx_obj.vx
           root_limit == ISqrt(iZ(yvx + vx_obj.vx, 1))
       IN  loc' = [NoLoc EXCEPT !.vx = vx_obj.vx, !.y = vx_obj.y, !.yvx = yvx,
                                !.root_limit = root_limit,
                                !.is_large_limit =
                                    IF root_limit > vx_obj.vx THEN 1 ELSE 0]
    /\ i' = 2
    /\ pc' = "vx_mark"
    /\ UNCHANGED <<sieveVars, x, vxVars, searchVars, callVars, randVars>>

\* the deterministic sieve stops at the end of root_primes, or (not in large
\* mode) at the first p that does not divide vx and exceeds root_limit
sieve_vx_mark_stops ==
    IF i < Len(vx_assets.root_primes)
    THEN LET q == vx_assets.root_primes[i + 1]
         IN  loc.vx % q # 0 /\ loc.is_large_limit = 0 /\ loc.root_limit < q
    ELSE TRUE

\* Mark_sieve_vx marking the shared base bitmaps instead of the clones
Mark_sieve_vx_in_base ==
    /\ pc = "vx_mark" /\ ~sieve_vx_mark_stops
    /\ LET q == vx_assets.root_primes[i + 1]
       IN  IF loc.vx % q = 0
           THEN UNCHANGED <<x5, x7, vx_assets>>
           ELSE LET b5 == bitmap_clear_mod_p(x5, q,
                              solve_for_x_gmp(-1, q, loc.vx, loc.y), loc.vx)
                    b7 == bitmap_clear_mod_p(x7, q,
                              solve_for_x_gmp(1, q, loc.vx, loc.y), loc.vx)
                IN  /\ x5' = b5 /\ x7' = b7
                    /\ vx_assets' = [vx_assets EXCEPT !.base_x5 = b5, !.base_x7 = b7]
    /\ i' = i + 1
    /\ UNCHANGED <<pc, sieveVars, x, loc, vx_obj, ioVars, searchVars, callVars,
                   randVars>>

\* step 2: one root prime
Mark_sieve_vx ==
    /\ pc = "vx_mark" /\ ~sieve_vx_mark_stops
    /\ LET q == vx_assets.root_primes[i + 1]
       IN  IF loc.vx % q = 0
           THEN UNCHANGED <<x5, x7>>
           ELSE /\ x5' = bitmap_clear_mod_p(x5, q,
                             solve_for_x_gmp(-1, q, loc.vx, loc.y), loc.vx)
                /\ x7' = bitmap_clear_mod_p(x7, q,
                             solve_for_x_gmp(1, q, loc.vx, loc.y), loc.vx)
    /\ i' = i + 1
    /\ UNCHANGED <<pc, sieveVars, x, loc, vxVars, searchVars, callVars, randVars>>

Done_mark_sieve_vx ==
    /\ pc = "vx_mark" /\ sieve_vx_mark_stops
    /\ loc' = [loc EXCEPT !.gap = 0]
    /\ x' = 1
    /\ pc' = "vx_collect"
    /\ UNCHANGED <<sieveVars, x5, x7, i, vxVars, searchVars, callVars, randVars>>

\* step 3: one x of the collection loop
Collect_sieve_vx ==
    /\ pc = "vx_collect" /\ x <= loc.vx
    /\ LET st == sieve_vx_collect(vx_obj, loc.gap, x5, x7, x, loc.yvx,
                                  loc.is_large_limit)
       IN  /\ vx_obj' = st.obj
           /\ loc' = [loc EXCEPT !.gap = st.gap]
    /\ x' = x + 1
    /\ UNCHANGED <<pc, sieveVars, x5, x7, i, vx_assets, ioVars, searchVars,
                   callVars, randVars>>

\* vx_append_p_gap does not check p_count against the allocated length: an
\* append past it is a write outside the buffer, which either lands (the
\* Collect_sieve_vx step above) or ends the process
Overflow_sieve_vx ==
    /\ pc = "vx_collect" /\ x <= loc.vx
    /\ LET st == sieve_vx_collect(vx_obj, loc.gap, x5, x7, x, loc.yvx,
                                  loc.is_large_limit)
       IN  Len(st.obj.p_gaps) > vx_obj.cap
    /\ pc' = "vx_crash"
    /\ UNCHANGED <<sieveVars, loopVars, vxVars, searchVars, callVars, randVars>>

\* step 4: free the working bitmaps, trim the gap list
Return_sieve_vx ==
    /\ pc = "vx_collect" /\ ~(x <= loc.vx)
    /\ x5' = NoBitmap /\ x7' = NoBitmap
    /\ pc' = "vx_done"
    /\ UNCHANGED <<sieveVars, x, i, loc, vxVars, searchVars, callVars, randVars>>

\* sieve_vx6_range: the call of sieve_vx returned and i + 1 < range_y:
\* y = y + 1, vx_obj_list[i + 1] = vx_init(vx, y), the next call of sieve_vx
\* starts with locals of its own
Next_sieve_vx6_range ==
    /\ pc = "vx_done" /\ args.fn = "sieve_vx6_range"
    /\ Len(results) + 1 < args.range_y
    /\ results' = Append(results, vx_obj)
    /\ vx_obj' = vx_init(vx_obj.vx, vx_obj.y + 1)
    /\ x' = 0 /\ i' = 0 /\ loc' = NoLoc
    /\ pc' = "vx_call"
    /\ UNCHANGED <<m_i, n, primes, n_bits, x5, x7, vx_assets, ioVars, searchVars,
                   callVars, randVars>>

\* sieve_vx6_range after its last call of sieve_vx: vx_assets_free, return
\* vx_obj_list
Return_sieve_vx6_range ==
    /\ pc = "vx_done" /\ args.fn = "sieve_vx6_range"
    /\ ~(Len(results) + 1 < args.range_y)
    /\ results' = Append(results, vx_obj)
    /\ ret' = results'
    /\ vx_assets' = NoAssets
    /\ pc' = "vx_range_done"
    /\ UNCHANGED <<m_i, n, primes, n_bits, loopVars, vx_obj, ioVars, searchVars,
                   args, randVars>>

(* ---- vx_write_file / vx_read_file (vx_obj.c), testing_vx_io (tests.c) ---- *)

\* sizes in bytes: GAP_SIZE = sizeof(uint16_t), size_t and int of an LP64
\* build, and the SHA-256 digest
GAP_SIZE == 2
sizeof_size_t == 8
sizeof_int == 4
SHA256_DIGEST_LENGTH == 32

\* the k bytes of v in host (little-endian) order, and the value of such bytes
RECURSIVE le_bytes(_, _)
le_bytes(v, k) ==
    IF k = 0 THEN <<>> ELSE <<v % 256>> \o le_bytes(v \div 256, k - 1)

RECURSIVE le_value(_)
le_value(b) ==
    IF b = <<>> THEN 0 ELSE b[1] + 256 * le_value(SubSeq(b, 2, Len(b)))

\* the bytes of an array of uint16_t gaps
gap_bytes(gaps) ==
    [k \in 1..(GAP_SIZE * Len(gaps)) |->
        le_bytes(gaps[((k - 1) \div GAP_SIZE) + 1], GAP_SIZE)[((k - 1) % GAP_SIZE) + 1]]

\* the gaps written one byte each
gap_bytes_u8(gaps) == [k \in 1..Len(gaps) |-> le_bytes(gaps[k], 1)[1]]

\* fwrite(vx_obj->p_gaps, GAP_SIZE, vx_obj->p_count, file)
fwrite_p_gaps(gaps) == gap_bytes(gaps)

\* hash_int_array(array, size, hash): a digest of the size bytes at array; the
\* model's digest is a position-weighted checksum, one per digest byte
RECURSIVE hash_sum(_, _, _, _)
hash_sum(bytes, j, lo, hi) ==
    IF lo > hi THEN 0
    ELSE IF lo = hi THEN ((lo + j) * bytes[lo]) % 256
    ELSE LET mid == (lo + hi) \div 2
         IN  (hash_sum(bytes, j, lo, mid) + hash_sum(bytes, j, mid + 1, hi)) % 256

hash_int_array(bytes) ==
    [j \in 1..SHA256_DIGEST_LENGTH |->
        (Len(bytes) + hash_sum(bytes, j, 1, Len(bytes))) % 256]

\* vx_compute_hash: hash_int_array(p_gaps, p_count * GAP_SIZE, sha256)
vx_compute_hash(obj) == [obj EXCEPT !.sha256 = hash_int_array(gap_bytes(obj.p_gaps))]

\* vx_verify_hash: 1 if the hash of p_gaps equals the stored sha256
vx_verify_hash(obj) ==
    IF obj.sha256 = hash_int_array(gap_bytes(obj.p_gaps)) THEN 1 ELSE 0

\* the 4 bytes behind the int p_count that fwrite(&p_count, sizeof(size_t), 1)
\* also writes: padding of the struct, whose content is indeterminate
Padding == {[j \in 1..(sizeof_size_t - sizeof_int) |-> 0],
            [j \in 1..(sizeof_size_t - sizeof_int) |-> 255]}

\* vx_write_file: y_len, y with its NUL, p_count as sizeof(size_t) bytes,
\* p_gaps, then the hash it computes; [rc, obj, file]
vx_write_file(obj, pad) ==
    LET y_str  == mpz_get_str(obj.y) \o <<0>>
        hashed == vx_compute_hash(obj)
    IN  [rc   |-> 1,
         obj  |-> hashed,
         file |-> le_bytes(Len(y_str), sizeof_size_t) \o y_str
                    \o le_bytes(Len(obj.p_gaps), sizeof_int) \o pad
                    \o fwrite_p_gaps(obj.p_gaps)
                    \o hashed.sha256]

\* fread(ptr, size, count, file) at offset off: the bytes of the complete
\* items the file still holds
fread(f, off, size, count) ==
    LET avail == (Len(f) - off) \div size
        items == IF count < avail THEN count ELSE avail
    IN  SubSeq(f, off + 1, off + size * items)

\* the uint16_t array that holds the bytes b
gaps_of_bytes(b) ==
    [k \in 1..(Len(b) \div GAP_SIZE) |->
        le_value(SubSeq(b, GAP_SIZE * (k - 1) + 1, GAP_SIZE * k))]

\* vx_read_file into obj: y_len and y, p_count (the int at the start of the
\* sizeof(size_t) bytes read over it), p_gaps, sha256; the value returned is
\* vx_verify_hash's, whatever the freads returned; p_count is Len(p_gaps)
vx_read_file(obj, f) ==
    LET y_len   == le_value(fread(f, 0, sizeof_size_t, 1))
        o1      == sizeof_size_t
        y_str   == fread(f, o1, 1, y_len)
        o2      == o1 + Len(y_str)
        pc_raw  == fread(f, o2, sizeof_size_t, 1)
        p_count == le_value(SubSeq(pc_raw, 1, sizeof_int))
        o3      == o2 + Len(pc_raw)
        g_raw   == fread(f, o3, GAP_SIZE, p_count)
        o4      == o3 + Len(g_raw)
        filled  == [obj EXCEPT !.y      = IF HasNul(y_str)
                                           THEN DecValue(CStr(y_str)) ELSE -1,
                               !.p_gaps = gaps_of_bytes(g_raw),
                               !.sha256 = fread(f, o4, SHA256_DIGEST_LENGTH, 1)]
    IN  [rc |-> vx_verify_hash(filled), obj |-> filled]

\* testing_vx_io: sieve_vx returned; vx_write_file(vx_obj_write, filename)
Write_vx_file ==
    /\ pc = "vx_done" /\ args.fn = "testing_vx_io"
    /\ \E pad \in Padding :
          LET w == vx_write_file(vx_obj, pad)
          IN  /\ file' = w.file
              /\ vx_obj' = w.obj
    /\ pc' = "vx_written"
    /\ UNCHANGED <<sieveVars, loopVars, vx_assets, vx_obj_read, searchVars,
                   callVars, randVars>>

\* testing_vx_io: vx_obj_read = vx_init(vx, y);
\* is_valid = vx_read_file(vx_obj_read, filename)
Read_vx_file ==
    /\ pc = "vx_written"
    /\ LET r == vx_read_file(vx_init(vx_obj.vx, vx_obj.y), file)
       IN  /\ vx_obj_read' = r.obj
           /\ ret' = r.rc
    /\ pc' = "vx_io_done"
    /\ UNCHANGED <<sieveVars, loopVars, vx_assets, vx_obj, file, searchVars,
                   args, randVars>>

NextVX ==
    \/ Call_sieve_vx \/ Mark_sieve_vx \/ Done_mark_sieve_vx
    \/ Collect_sieve_vx \/ Overflow_sieve_vx \/ Return_sieve_vx
    \/ Next_sieve_vx6_range \/ Return_sieve_vx6_range
    \/ Write_vx_file \/ Read_vx_file

SpecVX == InitVX /\ [][NextVX]_vars

-----------------------------------------------------------------------------
(* search_iZprime (prime_gen.c)                                            *)

\* the values of vx searched in the model: primorials, both residues mod 6
SearchVx == {35, 385}

InitSearch ==
    /\ NoCall /\ NoRandom
    /\ pc = "search_call"
    /\ p_id \in {-1, 1}
    /\ vx \in SearchVx
    /\ tmp = 0 /\ found = 0 /\ attempts = 0 /\ tests = 0 /\ p = 0
    /\ m_i = 1 /\ results = [a \in {} |-> <<>>] /\ n = 0 /\ primes = <<>>
    /\ x5 = NoBitmap /\ x7 = NoBitmap /\ n_bits = NoBitmap
    /\ x = 0 /\ i = 0 /\ loc = NoLoc
    /\ vx_assets = NoAssets /\ vx_obj = NoVxObj
    /\ file = <<>> /\ vx_obj_read = NoVxObj

\* iZ_gmp(z, x, i) asserts mpz_sgn(x) > 0
iZ_gmp_asserts(xx) == xx > 0

\* mpz_urandomm draws x in [0, vx); tmp = iZ_gmp(x, p_id)
Call_search_iZprime ==
    /\ pc = "search_call"
    /\ \E x0 \in 0..(vx - 1) :
          /\ iZ_gmp_asserts(x0)
          /\ tmp' = iZ(x0, p_id)
    /\ pc' = "search_gcd"
    /\ UNCHANGED <<sieveVars, loopVars, vxVars, p_id, vx, found, attempts, tests, p, callVars, randVars>>

\* the draw x = 0 trips the assertion of iZ_gmp: the process aborts
Abort_search_iZprime ==
    /\ pc = "search_call"
    /\ \E x0 \in 0..(vx - 1) : ~iZ_gmp_asserts(x0)
    /\ pc' = "abort"
    /\ UNCHANGED <<sieveVars, loopVars, vxVars, searchVars, callVars, randVars>>

\* one iteration of while (1): tmp += 6; break if gcd(vx, tmp) = 1
Gcd_search_iZprime ==
    /\ pc = "search_gcd"
    /\ tmp' = tmp + 6
    /\ pc' = IF mpz_gcd(vx, tmp') = 1 THEN "search_loop" ELSE "search_gcd"
    /\ UNCHANGED <<sieveVars, loopVars, vxVars, p_id, vx, found, attempts, tests, p, callVars, randVars>>

\* the step that moves tmp to the next candidate
search_next_candidate(t, v) == t + v

\* the loop continues while (!found && attempts < attempts_limit)
search_loop_cond == found = 0 /\ attempts < attempts_limit

\* one iteration of the search loop
Attempt_search_iZprime ==
    /\ pc = "search_loop" /\ search_loop_cond
    /\ tmp' = search_next_candidate(tmp, vx)
    /\ found' \in mpz_probab_prime_p(tmp')
    /\ p' = IF found' # 0 THEN tmp' ELSE p
    /\ tests' = tests + 1
    /\ UNCHANGED <<pc, sieveVars, loopVars, vxVars, p_id, vx, attempts, callVars, randVars>>

\* return found
Return_search_iZprime ==
    /\ pc = "search_loop" /\ ~search_loop_cond
    /\ pc' = "search_done"
    /\ UNCHANGED <<sieveVars, loopVars, vxVars, searchVars, callVars, randVars>>

NextSearch ==
    \/ Call_search_iZprime \/ Abort_search_iZprime \/ Gcd_search_iZprime
    \/ Attempt_search_iZprime \/ Return_search_iZprime

SpecSearch == InitSearch /\ [][NextSearch]_vars

-----------------------------------------------------------------------------
(* compute_max_vx_gmp (iZ.c)                                               *)

\* mpz_sizeinbase(v, 2): the number of bits of v >= 1
RECURSIVE mpz_sizeinbase2(_)
mpz_sizeinbase2(v) == IF v < 2 THEN 1 ELSE 1 + mpz_sizeinbase2(v \div 2)

\* PRIMES_OBJ *primes = sieve_iZ(10000): the loop reads p_array[2 .. k] only,
\* the same leading primes sieve_iZ returns for the smaller MaxVxPrimesN
max_vx_primes == sieve_iZ(MaxVxPrimesN)

\* while (mpz_sizeinbase(vx, 2) < bit_size) { i++; vx *= p_array[i]; }
RECURSIVE compute_max_vx_loop(_, _, _)
compute_max_vx_loop(v, k, bs) ==
    IF mpz_sizeinbase2(v) < bs
    THEN compute_max_vx_loop(v * max_vx_primes[k + 2], k + 1, bs)
    ELSE [vx |-> v, i |-> k]

\* vx = 5; the loop; then divide by the last prime p_array[i]
compute_max_vx_gmp(bs) ==
    LET r == compute_max_vx_loop(max_vx_primes[3], 2, bs)
    IN  r.vx \div max_vx_primes[r.i + 1]

-----------------------------------------------------------------------------
(* random_iZprime (prime_gen.c)                                            *)

\* mpz_set_str(p, str, 10): 0 and the value if str is a valid number, else -1
mpz_set_str(str) ==
    IF str # <<>> /\ \A k \in 1..Len(str) : str[k] \in 48..57
    THEN [rc |-> 0, v |-> DecValue(str)]
    ELSE [rc |-> -1, v |-> 0]

\* while (1) { tmp += 6; if (gcd(vx, tmp) == 1) break; }
RECURSIVE search_gcd_loop(_, _)
search_gcd_loop(t, v) ==
    LET t6 == t + 6
    IN  IF mpz_gcd(v, t6) = 1 THEN t6 ELSE search_gcd_loop(t6, v)

\* while (!found && attempts < attempts_limit), attempts staying at att:
\* the prime found, or 0
RECURSIVE search_attempts(_, _, _)
search_attempts(t, v, att) ==
    IF att < attempts_limit
    THEN LET t1 == search_next_candidate(t, v)
         IN  IF mpz_probab_prime_p(t1) # {0} THEN t1
             ELSE search_attempts(t1, v, att)
    ELSE 0

\* search_iZprime(p, p_id, vx) as one call, for the random draw x0 > 0:
\* the value left in p
search_iZprime(x0, id, v) == search_attempts(search_gcd_loop(iZ(x0, id), v), v, 0)

\* int str_size = bit_size / 3
str_size(bs) == bs \div 3

\* write(fd[1], candidate_str, strlen(candidate_str) + 1) appends the bytes
\* to the pipe; the parent reads once and at most size bytes, so the pipe is
\* kept up to its first size bytes
write(pipe, bytes, size) ==
    LET all == pipe \o bytes
    IN  IF Len(all) > size THEN SubSeq(all, 1, size) ELSE all

\* memset(buf, 0, str_size); read(fd[0], buf, str_size): at most str_size
\* of the bytes in the pipe
read(pipe, size) ==
    LET cnt == IF Len(pipe) < size THEN Len(pipe) ELSE size
    IN  [n |-> cnt,
         bytes |-> SubSeq(pipe, 1, cnt) \o [k \in 1..(size - cnt) |-> 0]]

\* mpz_set_str(p, buf, 10) on the buffer: the values p can hold afterwards.
\* With no NUL inside buf the call reads past the array (undefined): what
\* follows the buffer ends the string at once, adds a digit, or makes the
\* string invalid (p kept).
set_from_buf(b, old) ==
    IF HasNul(b)
    THEN LET r == mpz_set_str(CStr(b)) IN {IF r.rc = 0 THEN r.v ELSE old}
    ELSE {DecValue(b), old} \cup {DecValue(Append(b, 48 + d)) : d \in 0..9}

InitRandom ==
    /\ pc = "rand_call"
    /\ p_id \in {-1, 1}
    /\ bit_size \in MinBitSize..MaxBitSize
    /\ cores_num \in 0..MaxCores
    /\ args = <<>> /\ ret = 0      \* ret is an int, read only at "rand_done"
    /\ fd = <<>> /\ kids = <<>> /\ buf = <<>> /\ wrote = <<>>
    /\ vx = 0 /\ tmp = 0 /\ found = 0 /\ attempts = 0 /\ tests = 0 /\ p = 0
    /\ m_i = 1 /\ results = [a \in {} |-> <<>>] /\ n = 0 /\ primes = <<>>
    /\ x5 = NoBitmap /\ x7 = NoBitmap /\ n_bits = NoBitmap
    /\ x = 0 /\ i = 0 /\ loc = NoLoc
    /\ vx_assets = NoAssets /\ vx_obj = NoVxObj
    /\ file = <<>> /\ vx_obj_read = NoVxObj

\* a forked child: running, not signalled
fork == [st |-> "running", sig |-> FALSE]

\* kill(pid, SIGTERM): the signal is sent; it terminates a running child (the
\* children install no handler) and changes nothing for one that has ended
kill(kid) ==
    [st |-> IF kid.st = "running" THEN "killed" ELSE kid.st, sig |-> TRUE]

\* waitpid(pid, NULL, 0) left the child as it was
waitpid_lost(kid) == kid

\* waitpid(pid, NULL, 0) returns for a child that has ended: it is reaped
waitpid(kid) == [kid EXCEPT !.st = "reaped"]

\* read() on a pipe whose write end the reader itself still holds open:
\* it returns only when the pipe holds bytes
read_ready_own_end_open(pipe, ks) == pipe # <<>>

\* the parent has closed fd[1]: read() returns when the pipe holds bytes,
\* and with end-of-stream when no child that could write is left
read_ready(pipe, ks) ==
    pipe # <<>> \/ \A k \in DOMAIN ks : ks[k].st # "running"

\* clamp bit_size and cores_num, compute vx, then either run in-process or
\* create the pipe and enter the fork loop with i = 0
Call_random_iZprime ==
    /\ pc = "rand_call"
    /\ bit_size' = IF bit_size < 10 THEN 10 ELSE bit_size
    /\ cores_num' = IF cores_num > 16 THEN 16 ELSE cores_num
    /\ vx' = compute_max_vx_gmp(bit_size')
    /\ found' = 0
    /\ i' = 0
    /\ pc' = IF cores_num' < 2 THEN "rand_single" ELSE "rand_fork"
    /\ UNCHANGED <<sieveVars, x5, x7, x, loc, vxVars, p_id, tmp, attempts, tests,
                   p, callVars, fd, kids, buf, wrote>>

\* workers < 2: found = search_iZprime(p, p_id, vx); return found
Single_random_iZprime ==
    /\ pc = "rand_single"
    /\ \E x0 \in 1..(vx - 1) :
          /\ p' = search_iZprime(x0, p_id, vx)
          /\ found' \in mpz_probab_prime_p(p')
    /\ ret' = found'
    /\ pc' = "rand_done"
    /\ UNCHANGED <<sieveVars, loopVars, vxVars, p_id, vx, tmp, attempts, tests,
                   args, randVars>>

\* the in-process search draws x = 0: iZ_gmp's assertion aborts the process
Abort_random_iZprime ==
    /\ pc = "rand_single"
    /\ \E x0 \in 0..(vx - 1) : ~iZ_gmp_asserts(x0)
    /\ pc' = "abort"
    /\ UNCHANGED <<sieveVars, loopVars, vxVars, searchVars, callVars, randVars>>

\* one iteration of the fork loop: pids[i] = fork(); after the last one the
\* parent closes fd[1], clears buf and calls read()
Fork_random_iZprime ==
    /\ pc = "rand_fork" /\ i < cores_num
    /\ kids' = Append(kids, fork)
    /\ i' = i + 1
    /\ pc' = IF i' < cores_num THEN "rand_fork" ELSE "rand_read"
    /\ UNCHANGED <<sieveVars, x5, x7, x, loc, vxVars, searchVars, callVars,
                   bit_size, cores_num, fd, buf, wrote>>

\* child k before the parent's read: search, write the candidate's digits and
\* NUL to the pipe, exit; the draw x = 0 aborts the child instead
Child_random_iZprime(k) ==
    /\ pc \in {"rand_fork", "rand_read"} /\ kids[k].st = "running"
    /\ \E x0 \in 0..(vx - 1) :
          IF iZ_gmp_asserts(x0)
          THEN LET c == search_iZprime(x0, p_id, vx)
               IN  /\ fd' = write(fd, mpz_get_str(c) \o <<0>>, str_size(bit_size))
                   /\ wrote' = IF wrote = <<>> THEN <<c>> ELSE wrote
                   /\ kids' = [kids EXCEPT ![k].st = "exited"]
          ELSE /\ kids' = [kids EXCEPT ![k].st = "aborted"]
               /\ UNCHANGED <<fd, wrote>>
    /\ UNCHANGED <<pc, sieveVars, loopVars, vxVars, searchVars, callVars,
                   bit_size, cores_num, buf>>

\* child k after the parent's read: it ends in the same two ways; what it
\* writes is read by nobody
Late_child_random_iZprime(k) ==
    /\ pc \in {"rand_kill", "rand_wait"} /\ kids[k].st = "running"
    /\ \E st \in {"exited", "aborted"} : kids' = [kids EXCEPT ![k].st = st]
    /\ UNCHANGED <<pc, sieveVars, loopVars, vxVars, searchVars, callVars,
                   bit_size, cores_num, fd, buf, wrote>>

\* the parent: read() returns, the buffer is parsed, fd[0] is closed and the
\* kill loop starts with i = 0
Read_random_iZprime ==
    /\ pc = "rand_read"
    /\ read_ready(fd, kids)
    /\ LET r == read(fd, str_size(bit_size))
       IN  /\ buf' = r
           /\ fd' = SubSeq(fd, r.n + 1, Len(fd))
           /\ IF r.n > 0 THEN p' \in set_from_buf(r.bytes, p) ELSE p' = p
    /\ i' = 0
    /\ pc' = "rand_kill"
    /\ UNCHANGED <<sieveVars, x5, x7, x, loc, vxVars, p_id, vx, tmp, found,
                   attempts, tests, callVars, bit_size, cores_num, kids, wrote>>

\* kill(pids[i], SIGTERM)
Kill_random_iZprime ==
    /\ pc = "rand_kill"
    /\ kids' = [kids EXCEPT ![i + 1] = kill(@)]
    /\ pc' = "rand_wait"
    /\ UNCHANGED <<sieveVars, loopVars, vxVars, searchVars, callVars,
                   bit_size, cores_num, fd, buf, wrote>>

\* waitpid(pids[i], NULL, 0) returns once child i has ended; i++; after the
\* last child: return found
Wait_random_iZprime ==
    /\ pc = "rand_wait"
    /\ kids[i + 1].st # "running"
    /\ kids' = [kids EXCEPT ![i + 1] = waitpid(@)]
    /\ i' = i + 1
    /\ IF i' < cores_num
       THEN pc' = "rand_kill" /\ ret' = ret
       ELSE pc' = "rand_done" /\ ret' = found
    /\ UNCHANGED <<sieveVars, x5, x7, x, loc, vxVars, searchVars, args,
                   bit_size, cores_num, fd, buf, wrote>>

NextRandom ==
    \/ Call_random_iZprime \/ Single_random_iZprime \/ Abort_random_iZprime
    \/ Fork_random_iZprime
    \/ (\E k \in DOMAIN kids : Child_random_iZprime(k))
    \/ (\E k \in DOMAIN kids : Late_child_random_iZprime(k))
    \/ Read_random_iZprime \/ Kill_random_iZprime \/ Wait_random_iZprime

\* every step of the coordinator or of a worker changes pc, i or kids
progressVars == <<pc, i, kids>>

\* what a step of worker k (Child_random_iZprime(k) before the read,
\* Late_child_random_iZprime(k) after it) does to progressVars: the worker
\* ends, by exit(0) or by abort(); both are enabled exactly when this is
Worker_ends(k) ==
    /\ k \in DOMAIN kids /\ kids[k].st = "running"
    /\ pc \in {"rand_fork", "rand_read", "rand_kill", "rand_wait"}
    /\ \E st \in {"exited", "aborted"} : kids' = [kids EXCEPT ![k].st = st]
    /\ UNCHANGED <<pc, i>>

\* the scheduler is fair to the coordinator and to every worker process; a
\* worker that is scheduled ends, because search_iZprime returns
FairRandom ==
    /\ WF_progressVars(Call_random_iZprime \/ Single_random_iZprime
                          \/ Fork_random_iZprime \/ Read_random_iZprime
                          \/ Kill_random_iZprime \/ Wait_random_iZprime)
    /\ \A k \in 1..MaxCores : WF_progressVars(Worker_ends(k))

\* the calls random_iZprime(p, 1, MinBitSize, cores_num)
InitRandomFair == InitRandom /\ bit_size = MinBitSize /\ p_id = 1

SpecRandom == InitRandom /\ [][NextRandom]_vars

SpecRandomFair == InitRandomFair /\ [][NextRandom]_vars /\ FairRandom

-----------------------------------------------------------------------------
(* solve_for_y, modular_inverse (iZ.c)                                     *)

\* modular_inverse_step with x0 = x1 + q * x0
modular_inverse_step_plus(st) ==
    LET q == st.a \div st.m
    IN  [a |-> st.m, m |-> st.a % st.m, x0 |-> st.x1 + q * st.x0, x1 |-> st.x0]

\* one iteration of while (a > 1) on st = (a, m, x0, x1); C's / and % on
\* non-negative operands
modular_inverse_step(st) ==
    LET q == st.a \div st.m
    IN  [a |-> st.m, m |-> st.a % st.m, x0 |-> st.x1 - q * st.x0, x1 |-> st.x0]

\* the loop: it ends with a <= 1, or reaches a / m with m = 0
RECURSIVE modular_inverse_loop(_)
modular_inverse_loop(st) ==
    IF st.a > 1
    THEN IF st.m = 0 THEN [st EXCEPT !.a = -1]
         ELSE modular_inverse_loop(modular_inverse_step(st))
    ELSE st

\* the division a / m with m = 0 is reached
modular_inverse_divides_by_zero(a, m) ==
    m # 1 /\ modular_inverse_loop([a |-> a, m |-> m, x0 |-> 0, x1 |-> 1]).a = -1

\* modular_inverse(a, m) when no division by zero is reached
modular_inverse(a, m) ==
    IF m = 1 THEN 0
    ELSE LET st == modular_inverse_loop([a |-> a, m |-> m, x0 |-> 0, x1 |-> 1])
         IN  IF st.x1 < 0 THEN st.x1 + m ELSE st.x1

\* one iteration of while (temp_a > 1) of modular_inverse_gmp on
\* st = (a, m, x0, x1): t is set to x0 and then overwritten by q * x0, so
\* x0 = x1 - q * x0 and x1 = q * x0
modular_inverse_gmp_step(st) ==
    LET q == st.a \div st.m
        t == q * st.x0
    IN  [a |-> st.m, m |-> st.a % st.m, x0 |-> st.x1 - t, x1 |-> t]

\* the loop: it ends with temp_a <= 1, or reaches mpz_fdiv_q with temp_m = 0
RECURSIVE modular_inverse_gmp_loop(_)
modular_inverse_gmp_loop(st) ==
    IF st.a > 1
    THEN IF st.m = 0 THEN [st EXCEPT !.a = -1]
         ELSE modular_inverse_gmp_loop(modular_inverse_gmp_step(st))
    ELSE st

\* mpz_fdiv_q with a zero divisor is reached (GMP raises its division error)
modular_inverse_gmp_divides_by_zero(a, m) ==
    m # 1 /\ modular_inverse_gmp_loop([a |-> a, m |-> m, x0 |-> 0, x1 |-> 1]).a = -1

\* the value modular_inverse_gmp(mod_inv, a, m) stores in mod_inv
modular_inverse_gmp(a, m) ==
    IF m = 1 THEN 0
    ELSE LET st == modular_inverse_gmp_loop([a |-> a, m |-> m, x0 |-> 0, x1 |-> 1])
         IN  IF st.x1 < 0 THEN st.x1 + m ELSE st.x1

\* the sentinel solve_for_y returns when p divides vx: return -1
NoSolution == -1

\* solve_for_y(matrix_id, p, vx, x); delta = (x_p - x) % p is computed in
\* uint64_t and then stored in an int
solve_for_y(matrix_id, q, vxs, xx) ==
    IF vxs % q = 0 THEN NoSolution
    ELSE LET x_p == normalized_x_p(matrix_id, q)
         IN  IF xx % q = x_p THEN 0
             ELSE LET delta  == USubMod(x_p, xx, q)
                      vx_inv == modular_inverse(vxs, q)
                  IN  (delta * vx_inv) % q

-----------------------------------------------------------------------------
(* iZ on uint64_t (iZ.c): values are four 16-bit limbs, lowest first       *)

Limb == 65536

\* the uint64_t with value k, for 0 <= k < 2^31
u64(k) == <<k % Limb, k \div Limb, 0, 0>>

\* uint64_t a + b: the carry out of the top limb is dropped
u64_add(a, b) ==
    LET s1 == a[1] + b[1]
        s2 == a[2] + b[2] + s1 \div Limb
        s3 == a[3] + b[3] + s2 \div Limb
        s4 == a[4] + b[4] + s3 \div Limb
    IN  <<s1 % Limb, s2 % Limb, s3 % Limb, s4 % Limb>>

\* a * k for a small k: lo is the uint64_t product, hi what does not fit
u64_mul_wide(a, k) ==
    LET s1 == a[1] * k
        s2 == a[2] * k + s1 \div Limb
        s3 == a[3] * k + s2 \div Limb
        s4 == a[4] * k + s3 \div Limb
    IN  [lo |-> <<s1 % Limb, s2 % Limb, s3 % Limb, s4 % Limb>>,
         hi |-> s4 \div Limb]

\* uint64_t a * k
u64_mul(a, k) == u64_mul_wide(a, k).lo

\* an int converted to uint64_t: -1 becomes 2^64 - 1
u64_of_int(id) ==
    IF id >= 0 THEN u64(id)
    ELSE <<Limb + id, Limb - 1, Limb - 1, Limb - 1>>

\* (double) a = 2^64: the conversion rounds a to 53 significant bits, to
\* nearest and ties to even. For a >= 2^63 it drops the low 11 bits; the result
\* is 2^64 exactly when the kept 53 bits are all ones and the rounding goes up
u64_to_double_is_2_64(a) ==
    LET low11   == a[1] % 2048
        kept_l1 == a[1] \div 2048
    IN  /\ a[4] = Limb - 1 /\ a[3] = Limb - 1 /\ a[2] = Limb - 1
        /\ kept_l1 = 31
        /\ low11 >= 1024

\* the three assertions of iZ(x, i); pow(2, 64) is the double 2^64 and x * 6
\* is a uint64_t converted to double for the comparison
iZ_asserts(xx, id) ==
    /\ id = -1 \/ id = 1
    /\ xx # u64(0)
    /\ ~u64_to_double_is_2_64(u64_mul(xx, 6))

\* return 6 * x + i in uint64_t
iZ_u64(xx, id) == u64_add(u64_mul(xx, 6), u64_of_int(id))

\* the largest x with 6x < 2^64: 0x2AAAAAAAAAAAAAAA
iZ_max_x == <<43690, 43690, 43690, 10922>>

\* the values of x handed to iZ: small ones, those around iZ_max_x, and
\* 2^62, 2^63, 2^64 - 1
iZ_inputs ==
    {u64(k) : k \in 0..MaxCallIZ}
    \cup {u64_add(iZ_max_x, u64_of_int(d)) : d \in (-IZBoundarySpan)..IZBoundarySpan}
    \cup {<<0, 0, 0, 16384>>, <<0, 0, 0, 32768>>, u64_of_int(-1)}

-----------------------------------------------------------------------------

(* Single calls of the residue-algebra functions and of the sieves' guards *)

\* the primes p handed to solve_for_x / solve_for_y
CallPrimes == {q \in 5..MaxCallP : IsPrime(q)}

\* the slab sizes handed to them
CallVx == {35, 385}

\* number of primes_obj_init / bitmap_create calls sieve_iZ(n) makes: none
\* before the n < 10 return, else the prime list and the bitmaps x5, x7
sieve_iZ_allocs(m) == IF m < 10 THEN 0 ELSE 3

\* sieve_iZm(n) for n < 1000: return sieve_iZ(n)
sieve_iZm_delegated(m) == sieve_iZ(m)

\* the slab sizes handed to construct_iZm_segment: the primorials
\* 5*7, 5*7*11, 5*7*11*13, ...
VX6 == 5 * 7 * 11 * 13 * 17 * 19

SegmentVx == {35, 385, 5005, 85085, VX6}

CallInputs ==
    [fn : {"solve_for_x", "solve_for_x_gmp"}, matrix_id : {-1, 1},
     p : CallPrimes, vx : CallVx, y : 0..MaxCallY]
    \cup [fn : {"solve_for_y"}, matrix_id : {-1, 1},
          p : CallPrimes, vx : CallVx, x : 1..MaxCallX]
    \cup [fn : {"modular_inverse", "modular_inverse_gmp"},
          a : 1..MaxCallA, m : 1..MaxCallM]
    \cup [fn : {"compute_max_vx_gmp"}, bit_size : 1..MaxCallBits]
    \cup [fn : {"iZ"}, x : iZ_inputs, i : {-1, 1}]
    \cup [fn : {"construct_iZm_segment"}, vx : SegmentVx]
    \cup [fn : {"sieve_iZ", "sieve_iZm"}, n : 0..MaxCallN]

InitCalls ==
    /\ pc = "call"
    /\ args \in CallInputs
    /\ ret = <<>>
    /\ NoRandom
    /\ p_id = 0 /\ vx = 0 /\ tmp = 0 /\ found = 0 /\ attempts = 0
    /\ tests = 0 /\ p = 0
    /\ m_i = 1 /\ results = [a \in {} |-> <<>>] /\ n = 0 /\ primes = <<>>
    /\ x5 = NoBitmap /\ x7 = NoBitmap /\ n_bits = NoBitmap
    /\ x = 0 /\ i = 0 /\ loc = NoLoc
    /\ vx_assets = NoAssets /\ vx_obj = NoVxObj
    /\ file = <<>> /\ vx_obj_read = NoVxObj

\* the function returns value v
Returns(v) ==
    /\ ret' = v
    /\ pc' = "returned"
    /\ UNCHANGED <<sieveVars, loopVars, vxVars, searchVars, args, randVars>>

Call_solve_for_x ==
    /\ pc = "call" /\ args.fn = "solve_for_x"
    /\ Returns(solve_for_x(args.matrix_id, args.p, args.vx, args.y))

Call_solve_for_x_gmp ==
    /\ pc = "call" /\ args.fn = "solve_for_x_gmp"
    /\ Returns(solve_for_x_gmp(args.matrix_id, args.p, args.vx, args.y))

Call_solve_for_y ==
    /\ pc = "call" /\ args.fn = "solve_for_y"
    /\ Returns(solve_for_y(args.matrix_id, args.p, args.vx, args.x))

Call_modular_inverse ==
    /\ pc = "call" /\ args.fn = "modular_inverse"
    /\ ~modular_inverse_divides_by_zero(args.a, args.m)
    /\ Returns(modular_inverse(args.a, args.m))

\* int q = a / m with m = 0 is undefined: the process traps (SIGFPE), or
\* the call goes on and returns some int
DivByZero_modular_inverse ==
    /\ pc = "call" /\ args.fn = "modular_inverse"
    /\ modular_inverse_divides_by_zero(args.a, args.m)
    /\ \/ /\ pc' = "trap"
          /\ UNCHANGED <<sieveVars, loopVars, vxVars, searchVars, callVars, randVars>>
       \/ \E v \in (-1)..(args.m - 1) : Returns(v)

Call_modular_inverse_gmp ==
    /\ pc = "call" /\ args.fn = "modular_inverse_gmp"
    /\ ~modular_inverse_gmp_divides_by_zero(args.a, args.m)
    /\ Returns(modular_inverse_gmp(args.a, args.m))

\* mpz_fdiv_q(q, temp_a, temp_m) with temp_m = 0: GMP signals a division by
\* zero and the process is terminated
DivByZero_modular_inverse_gmp ==
    /\ pc = "call" /\ args.fn = "modular_inverse_gmp"
    /\ modular_inverse_gmp_divides_by_zero(args.a, args.m)
    /\ pc' = "trap"
    /\ UNCHANGED <<sieveVars, loopVars, vxVars, searchVars, callVars, randVars>>

Call_iZ ==
    /\ pc = "call" /\ args.fn = "iZ"
    /\ iZ_asserts(args.x, args.i)
    /\ Returns(iZ_u64(args.x, args.i))

\* one of the assertions of iZ fails: the process aborts
Assert_iZ ==
    /\ pc = "call" /\ args.fn = "iZ"
    /\ ~iZ_asserts(args.x, args.i)
    /\ pc' = "abort"
    /\ UNCHANGED <<sieveVars, loopVars, vxVars, searchVars, callVars, randVars>>

\* construct_iZm_segment(vx, x5, x7) on two bitmaps created with vx + 10 bits
Call_construct_iZm_segment ==
    /\ pc = "call" /\ args.fn = "construct_iZm_segment"
    /\ Returns(construct_iZm_segment(args.vx,
                   [x5 |-> bitmap_create(args.vx + 10),
                    x7 |-> bitmap_create(args.vx + 10)]))

Call_compute_max_vx_gmp ==
    /\ pc = "call" /\ args.fn = "compute_max_vx_gmp"
    /\ Returns(compute_max_vx_gmp(args.bit_size))

Call_sieve_iZ_once ==
    /\ pc = "call" /\ args.fn = "sieve_iZ"
    /\ Returns([primes |-> sieve_iZ(args.n), allocs |-> sieve_iZ_allocs(args.n)])

Call_sieve_iZm_once ==
    /\ pc = "call" /\ args.fn = "sieve_iZm" /\ args.n < 1000
    /\ Returns([primes |-> sieve_iZm_delegated(args.n),
                allocs |-> sieve_iZ_allocs(args.n)])

NextCalls ==
    \/ Call_solve_for_x \/ Call_solve_for_x_gmp \/ Call_solve_for_y
    \/ Call_modular_inverse \/ DivByZero_modular_inverse
    \/ Call_modular_inverse_gmp \/ DivByZero_modular_inverse_gmp
    \/ Call_iZ \/ Assert_iZ
    \/ Call_construct_iZm_segment
    \/ Call_compute_max_vx_gmp
    \/ Call_sieve_iZ_once \/ Call_sieve_iZm_once

SpecCalls == InitCalls /\ [][NextCalls]_vars

-----------------------------------------------------------------------------
(* iZ_next_prime (prime_gen.c)                                             *)

\* int vx = 5 * 7 * 11 * 13
next_prime_vx == 5 * 7 * 11 * 13

\* int max_i = 1000: max number of segments to search
max_i == 1000

\* the pre-sieved bitmaps: bitmap_create(vx + 10) twice, construct_iZm_segment
next_prime_bitmaps ==
    construct_iZm_segment(next_prime_vx,
        [x5 |-> bitmap_create(next_prime_vx + 10),
         x7 |-> bitmap_create(next_prime_vx + 10)])

\* the bases in the model: the small ones and those around the first slab
\* boundary 6 * vx
NextBases ==
    (0..MaxNextBase)
    \cup ((6 * next_prime_vx - NextBoundarySpan)..(6 * next_prime_vx + NextBoundarySpan))

InitNext ==
    /\ pc = "next_call"
    /\ args \in [base : NextBases, forward : BOOLEAN]
    /\ ret = <<>>
    /\ NoRandom
    /\ p_id = 0 /\ vx = 0 /\ tmp = 0 /\ found = 0 /\ attempts = 0
    /\ tests = 0 /\ p = 0
    /\ m_i = 1 /\ results = [a \in {} |-> <<>>] /\ n = 0 /\ primes = <<>>
    /\ x5 = NoBitmap /\ x7 = NoBitmap /\ n_bits = NoBitmap
    /\ x = 0 /\ i = 0 /\ loc = NoLoc
    /\ vx_assets = NoAssets /\ vx_obj = NoVxObj
    /\ file = <<>> /\ vx_obj_read = NoVxObj

\* tmp after the edge-case branch took its step: base + 2 (forward, base mod
\* 6 = 5), base - 2 (backward, base mod 6 = 1)
next_prime_edge(base, forward) ==
    IF base % 6 = 5 /\ forward THEN base + 2
    ELSE IF base % 6 = 1 /\ ~forward THEN base - 2
    ELSE base

\* an edge-case branch is taken
next_prime_is_edge(base, forward) ==
    (base % 6 = 5 /\ forward) \/ (base % 6 = 1 /\ ~forward)

\* the edge case hits: tmp is a probable prime, p = tmp, return 1
Edge_iZ_next_prime ==
    /\ pc = "next_call"
    /\ next_prime_is_edge(args.base, args.forward)
    /\ tmp' = next_prime_edge(args.base, args.forward)
    /\ mpz_probab_prime_p(tmp') # {0}
    /\ p' = tmp'
    /\ ret' = 1
    /\ pc' = "next_done"
    /\ UNCHANGED <<sieveVars, loopVars, vxVars, p_id, vx, found, attempts, tests,
                   args, randVars>>

\* otherwise: bitmaps, y = base / (6 vx), yvx = y vx, x_p = tmp / 6,
\* start_x = x_p % vx + step, end_x, i = 0
Call_iZ_next_prime ==
    /\ pc = "next_call"
    /\ tmp' = next_prime_edge(args.base, args.forward)
    /\ ~(next_prime_is_edge(args.base, args.forward)
           /\ mpz_probab_prime_p(tmp') # {0})
    /\ LET y_    == args.base \div (6 * next_prime_vx)
           x_p   == tmp' \div 6
           step  == IF args.forward THEN 1 ELSE -1
       IN  /\ loc' = [yvx |-> y_ * next_prime_vx,
                      end_x |-> IF args.forward THEN next_prime_vx + 1 ELSE 1]
           /\ x' = (x_p % next_prime_vx) + step
    /\ x5' = next_prime_bitmaps.x5
    /\ x7' = next_prime_bitmaps.x7
    /\ vx' = next_prime_vx
    /\ i' = 0
    /\ found' = 0
    /\ pc' = "next_scan"
    /\ UNCHANGED <<sieveVars, vxVars, p_id, attempts, tests, p, callVars, randVars>>

\* the for loop of the current segment still has an x to examine
next_prime_in_segment ==
    IF args.forward THEN x < loc.end_x ELSE x > loc.end_x

\* the matrices in the order one x is examined: x5 then x7 forward, x7 then
\* x5 backward
next_prime_order == IF args.forward THEN <<-1, 1>> ELSE <<1, -1>>

\* bit x of the matrix id is set
next_prime_bit(id) ==
    IF id = -1 THEN bitmap_get_bit(x5, x) ELSE bitmap_get_bit(x7, x)

\* the matrices whose candidate at x is tested: the first one if its bit is
\* set, and the second one if its bit is set and the first did not yield a prime
next_prime_first_tested == next_prime_bit(next_prime_order[1])
next_prime_first_found ==
    /\ next_prime_first_tested
    /\ mpz_probab_prime_p(iZ(loc.yvx + x, next_prime_order[1])) # {0}
next_prime_second_tested ==
    ~next_prime_first_found /\ next_prime_bit(next_prime_order[2])
next_prime_second_found ==
    /\ next_prime_second_tested
    /\ mpz_probab_prime_p(iZ(loc.yvx + x, next_prime_order[2])) # {0}

\* one x of the for loop with no prime at it: x++ (forward) or x--
Scan_iZ_next_prime ==
    /\ pc = "next_scan" /\ next_prime_in_segment
    /\ (next_prime_first_tested \/ next_prime_second_tested)
          => iZ_gmp_asserts(loc.yvx + x)
    /\ ~next_prime_first_found /\ ~next_prime_second_found
    /\ tmp' = IF next_prime_second_tested
              THEN iZ(loc.yvx + x, next_prime_order[2])
              ELSE IF next_prime_first_tested
                   THEN iZ(loc.yvx + x, next_prime_order[1]) ELSE tmp
    /\ x' = IF args.forward THEN x + 1 ELSE x - 1
    /\ UNCHANGED <<pc, sieveVars, x5, x7, i, loc, vxVars, p_id, vx, found,
                   attempts, tests, p, callVars, randVars>>

\* one x of the for loop with a prime at it: break, leave the while loop,
\* p = tmp, return found
Found_iZ_next_prime ==
    /\ pc = "next_scan" /\ next_prime_in_segment
    /\ iZ_gmp_asserts(loc.yvx + x)
    /\ next_prime_first_found \/ next_prime_second_found
    /\ tmp' = IF next_prime_first_found
              THEN iZ(loc.yvx + x, next_prime_order[1])
              ELSE iZ(loc.yvx + x, next_prime_order[2])
    /\ found' \in mpz_probab_prime_p(tmp')
    /\ p' = tmp'
    /\ ret' = found'
    /\ i' = i + 1
    /\ pc' = "next_done"
    /\ UNCHANGED <<sieveVars, x5, x7, x, loc, vxVars, p_id, vx, attempts, tests,
                   args, randVars>>

\* iZ_gmp is reached with x_p = yvx + x <= 0: its assertion aborts the process
Abort_iZ_next_prime ==
    /\ pc = "next_scan" /\ next_prime_in_segment
    /\ next_prime_first_tested \/ next_prime_second_tested
    /\ ~iZ_gmp_asserts(loc.yvx + x)
    /\ pc' = "abort"
    /\ UNCHANGED <<sieveVars, loopVars, vxVars, searchVars, callVars, randVars>>

\* the segment is exhausted: yvx += vx (forward) or yvx -= vx, i++; the
\* next segment starts at x = 1 (forward) or x = vx while i < max_i, else
\* the function returns found = 0
Segment_iZ_next_prime ==
    /\ pc = "next_scan" /\ ~next_prime_in_segment
    /\ loc' = [loc EXCEPT !.yvx = IF args.forward THEN @ + vx ELSE @ - vx]
    /\ i' = i + 1
    /\ IF i' < max_i
       THEN /\ x' = IF args.forward THEN 1 ELSE vx
            /\ UNCHANGED <<pc, ret>>
       ELSE /\ ret' = found
            /\ pc' = "next_done"
            /\ x' = x
    /\ UNCHANGED <<sieveVars, x5, x7, vxVars, searchVars, args, randVars>>

NextNext ==
    \/ Edge_iZ_next_prime \/ Call_iZ_next_prime
    \/ Scan_iZ_next_prime \/ Found_iZ_next_prime \/ Abort_iZ_next_prime
    \/ Segment_iZ_next_prime

SpecNext == InitNext /\ [][NextNext]_vars

-----------------------------------------------------------------------------
(* Properties                                                              *)

Has(name) == name \in DOMAIN results

\* the values test_vx_p_gaps walks through, the base included
WalkFromBase == <<6 * (vx_obj.vx * vx_obj.y) + 1>> \o vx_obj.walk

\* the residue mod 6 of the class p_id
ClassResidue(id) == IF id = -1 THEN 5 ELSE 1

\* C1: for every n >= 10, sieve_iZ(n) returns exactly the primes <= n, each
\* once, in strictly ascending order (what a classic Sieve of Eratosthenes
\* returns), n itself included when n is prime.
C1_sieve_iZ_all_primes ==
    Has("sieve_iZ") /\ n >= 10 => IsPrimesUpTo(results["sieve_iZ"], n)

\* C2: for every n >= 10, sieve_iZm(n) returns the same list as sieve_iZ(n);
\* for n >= 1000 the segmented path appends no composite and skips no prime.
C2_sieve_iZm_equals_sieve_iZ ==
    Has("sieve_iZm") /\ Has("sieve_iZ") /\ n >= 10 =>
        /\ results["sieve_iZm"] = results["sieve_iZ"]
        /\ n >= 1000 =>
              /\ \A k \in 1..Len(results["sieve_iZm"]) :
                    IsPrime(results["sieve_iZm"][k])
              /\ \A q \in 2..n : IsPrime(q) => q \in Elems(results["sieve_iZm"])

\* C3: for every n >= 1000, no element of the list sieve_iZm(n) returns is
\* greater than n.
C3_sieve_iZm_within_n ==
    Has("sieve_iZm") /\ n >= 1000 =>
        \A k \in 1..Len(results["sieve_iZm"]) : results["sieve_iZm"][k] <= n

\* C4: for every n >= 10, the last element of sieve_iZ(n) is <= n and is a
\* prime number.
C4_sieve_iZ_last ==
    Has("sieve_iZ") /\ n >= 10 =>
        /\ Last(results["sieve_iZ"]) <= n
        /\ IsPrime(Last(results["sieve_iZ"]))

\* C4 witness: sieve_iZ has returned for an n = 6k with n + 1 prime, so the
\* overshoot n + 1 was appended and then dropped.
C4_witness ==
    /\ Has("sieve_iZ") /\ n >= 10
    /\ n % 6 = 0 /\ IsPrime(n + 1)
    /\ Last(results["sieve_iZ"]) < n

\* C5: for every n >= 10, sieve_atkin(n) returns the same list as sieve_iZ(n);
\* no composite (such as 65, which has two representations 4x^2 + y^2) is
\* reported as prime.
C5_sieve_atkin_equals_sieve_iZ ==
    Has("sieve_atkin") /\ Has("sieve_iZ") /\ n >= 10 =>
        /\ results["sieve_atkin"] = results["sieve_iZ"]
        /\ \A k \in 1..Len(results["sieve_atkin"]) :
              IsPrime(results["sieve_atkin"][k])

\* C6: after sieve_vx, the values base + (sum of the first k gaps), with
\* base = iZ(y*vx, +1), are strictly increasing and every one is prime:
\* genuinely prime when root_limit <= vx, accepted by the primality test in
\* large mode.
C6_sieve_vx_walk_is_primes ==
    pc = "vx_done" =>
        /\ Ascending(WalkFromBase)
        /\ \A k \in 1..Len(vx_obj.walk) :
              IF loc.is_large_limit = 1
              THEN mpz_probab_prime_p(vx_obj.walk[k]) # {0}
              ELSE IsPrime(vx_obj.walk[k])

\* C7: the gaps sieve_vx emits are the gaps between the consecutive primes of
\* the slab: every prime (>= 5) of the range [iZ(y*vx, +1), iZ((y+1)*vx, +1))
\* is among the walked values, for every y >= 0 (y = 0: 11, 13, 17, ...).
C7_sieve_vx_walk_has_all_primes ==
    pc = "vx_done" =>
        \A q \in (6 * loc.yvx + 1)..(6 * (loc.yvx + loc.vx)) :
            q >= 5 /\ IsPrime(q) => q \in Elems(WalkFromBase)

C10_search_iZprime_cap == tests <= attempts_limit

\* C11: in multi-worker mode (workers >= 2), whenever the coordinator's read
\* returned bytes, the prime random_iZprime stores in p is exactly the complete
\* candidate written first to the pipe (not truncated, not mixed), and it is a
\* (probable) prime, for every bit_size >= 10.
C11_random_iZprime_first_candidate ==
    pc = "rand_done" /\ cores_num >= 2 /\ buf.n > 0 =>
        /\ HasNul(buf.bytes) /\ CStr(buf.bytes) = mpz_get_str(wrote[1])
        /\ p = wrote[1]
        /\ mpz_probab_prime_p(p) # {0}

\* C12: random_iZprime returns non-zero (1) whenever a prime was found and
\* stored in p, and 0 otherwise, in single-process mode and in multi-worker
\* mode alike.
C12_random_iZprime_return ==
    pc = "rand_done" => (ret # 0 <=> p # 0)

\* the x_p of prime q normalised to the matrix matrix_id: (q+1)/6 if matrix_id
\* is the residue class of q, q - (q+1)/6 otherwise
TargetXp(matrix_id, q) ==
    IF matrix_id = (IF q % 6 = 1 THEN 1 ELSE -1)
    THEN (q + 1) \div 6 ELSE q - (q + 1) \div 6

Called(fn) == pc = "returned" /\ args.fn = fn

\* C15: for every prime p >= 5, matrix_id, vx and y >= 0 (y = 0 included),
\* solve_for_x and solve_for_x_gmp each return x in [1, p] with
\* (y*vx + x) congruent to x_p modulo p.
C15_solve_for_x_congruence ==
    Called("solve_for_x") \/ Called("solve_for_x_gmp") =>
        /\ ret \in 1..args.p
        /\ (args.y * args.vx + ret) % args.p
              = TargetXp(args.matrix_id, args.p) % args.p

\* C16: for every prime p >= 5 not dividing vx and every x >= 1 (x > x_p and
\* x > p included), solve_for_y returns y in [0, p) with (x + vx*y) congruent
\* to x_p modulo p, i.e. ((x_p - x) mod p) * vx^-1 mod p; when p divides vx it
\* returns NoSolution.
C16_solve_for_y_congruence ==
    Called("solve_for_y") =>
        IF args.vx % args.p = 0 THEN ret = NoSolution
        ELSE /\ ret \in 0..(args.p - 1)
             /\ (args.x + args.vx * ret) % args.p
                   = TargetXp(args.matrix_id, args.p) % args.p

\* C17: for all a >= 1 and m >= 2 with gcd(a, m) = 1, modular_inverse(a, m)
\* returns r in [0, m) with (r * a) mod m = 1.
C17_modular_inverse_coprime ==
    args # <<>> /\ args.fn = "modular_inverse" /\ pc # "call"
    /\ args.m >= 2 /\ mpz_gcd(args.a, args.m) = 1 =>
        /\ pc = "returned"
        /\ ret \in 0..(args.m - 1)
        /\ (ret * args.a) % args.m = 1

\* C17 witness: the call returned for coprime a > m >= 2 with an inverse other
\* than 1 (the loop ran and the result was normalised into [0, m)).
C17_witness ==
    /\ Called("modular_inverse")
    /\ args.m >= 2 /\ args.a > args.m /\ mpz_gcd(args.a, args.m) = 1
    /\ ret > 1 /\ (ret * args.a) % args.m = 1

\* C18: for all a >= 1 and m >= 2 with gcd(a, m) # 1, modular_inverse(a, m)
\* fails with NotCoprime (returns -1): it neither returns another number nor
\* divides by zero.
C18_modular_inverse_not_coprime ==
    args # <<>> /\ args.fn = "modular_inverse" /\ pc # "call"
    /\ args.m >= 2 /\ mpz_gcd(args.a, args.m) # 1 =>
        pc = "returned" /\ ret = -1

\* the product of the primes 5 .. q
RECURSIVE PrimorialUpTo(_)
PrimorialUpTo(q) ==
    IF q < 5 THEN 1
    ELSE (IF IsPrime(q) THEN q ELSE 1) * PrimorialUpTo(q - 1)

\* the primorials 5, 5*7, 5*7*11, ... that fit the model's integers
Primorials == {PrimorialUpTo(q) : q \in 5..23}

\* C19: for every bit_size >= 3, compute_max_vx_gmp(bit_size) returns the
\* largest primorial 5*7*...*p_k whose bit length is <= bit_size.
C19_compute_max_vx_largest ==
    Called("compute_max_vx_gmp") /\ args.bit_size >= 3 =>
        /\ ret \in Primorials
        /\ ret < 2 ^ args.bit_size
        /\ \A v \in Primorials : v < 2 ^ args.bit_size => v <= ret

NextPrimeAfter(b) ==
    CHOOSE q \in (b + 1)..(b + MaxPrimeGap) :
        IsPrime(q) /\ \A k \in (b + 1)..(q - 1) : ~IsPrime(k)

\* the largest prime not above b (for b >= 2)
PrevPrimeUpTo(b) ==
    CHOOSE q \in 2..b : IsPrime(q) /\ \A k \in (q + 1)..b : ~IsPrime(k)

\* C13: for every base, iZ_next_prime(base, forward = true) returns the
\* smallest (probable) prime strictly greater than base, as a reference
\* next-prime oracle does; bases with base mod 6 = 0 and base mod 6 = 5 included.
C13_iZ_next_prime_forward ==
    pc = "next_done" /\ args.forward =>
        ret # 0 /\ p = NextPrimeAfter(args.base)

\* C14: for every base, iZ_next_prime(base, forward = false) returns the
\* largest (probable) prime <= base: no prime q with result < q <= base exists.
C14_iZ_next_prime_backward ==
    pc = "next_done" /\ ~args.forward /\ args.base >= 2 =>
        ret # 0 /\ p = PrevPrimeUpTo(args.base)

\* C30: search_iZprime never trips the x > 0 assertion of iZ_gmp: for every
\* draw x0 in [0, vx), x0 = 0 included, the computation of 6*x0 + p_id
\* completes and the process does not abort.
C30_search_iZprime_no_assert == pc # "abort"

\* C27: modular_inverse_gmp computes what modular_inverse computes: for all
\* a >= 1 and m >= 2 with gcd(a, m) = 1 it sets mod_inv to r in [0, m) with
\* (r * a) mod m = 1.
C27_modular_inverse_gmp_coprime ==
    args # <<>> /\ args.fn = "modular_inverse_gmp" /\ pc # "call"
    /\ args.m >= 2 /\ mpz_gcd(args.a, args.m) = 1 =>
        /\ pc = "returned"
        /\ ret \in 0..(args.m - 1)
        /\ (ret * args.a) % args.m = 1
        /\ ret = modular_inverse(args.a, args.m)

\* C28: iZ(x, i) enforces its precondition by assertion: a call with x >= 1
\* and 6x >= 2^64 trips the overflow assertion instead of returning the
\* wrapped value; for x >= 1 with 6x + 1 < 2^64 it returns exactly 6x + i.
C28_iZ_overflow_assert ==
    args # <<>> /\ args.fn = "iZ" /\ pc # "call" /\ args.x # u64(0) =>
        IF u64_mul_wide(args.x, 6).hi # 0
        THEN pc = "abort"
        ELSE pc = "returned" /\ ret = iZ_u64(args.x, args.i)

\* C29: sieve_iZm(n) for n >= 1000 has a bounded working set: at every point
\* of the call at most four bitmaps it created are live (base_x5, base_x7 and
\* one working pair), and all of them have been freed when it returns.
C29_sieve_iZm_working_set ==
    /\ pc \in {"iZm_seg0", "iZm_slab", "iZm_collect"} => loc.live <= 4
    /\ Has("sieve_iZm") /\ n >= 1000 => loc.live = 0

\* C25: sieve_vx leaves the shared VX_ASSETS unchanged: after any sequence of
\* sieve_vx calls with any y (as in sieve_vx6_range), base_x5, base_x7 and
\* root_primes are identical to their state right after vx_assets_init; the
\* composite marking happens in the per-call clones.
C25_sieve_vx_assets_unchanged ==
    pc \in {"vx_call", "vx_mark", "vx_collect", "vx_done"} =>
        vx_assets = vx_assets_init(vx_obj.vx)

\* C25 witness: a second call of sieve_vx on the same assets has marked
\* composites in both of its clones, which differ from the base bitmaps.
C25_witness ==
    /\ pc = "vx_collect" /\ Len(results) >= 1
    /\ x5 # vx_assets.base_x5 /\ x7 # vx_assets.base_x7
    /\ x5.bits \subseteq vx_assets.base_x5.bits
    /\ vx_assets = vx_assets_init(vx_obj.vx)

\* C24: after construct_iZm_segment(vx, x5, x7) on freshly created bitmaps,
\* for every x in [1, vx], bit x of x5 is set iff gcd(6x - 1, vx) = 1 and
\* bit x of x7 is set iff gcd(6x + 1, vx) = 1, so each prime dividing vx is
\* cleared at its own index.
C24_construct_iZm_segment_coprime ==
    Called("construct_iZm_segment") =>
        \A k \in 1..args.vx :
            /\ bitmap_get_bit(ret.x5, k) <=> mpz_gcd(6 * k - 1, args.vx) = 1
            /\ bitmap_get_bit(ret.x7, k) <=> mpz_gcd(6 * k + 1, args.vx) = 1

\* C24 witness: the call for vx = 5 * 7 * 11 * 13 returned with the primes
\* 5, 7, 11, 13 cleared at their own indices, 17 = iZ(3, -1) set and the
\* composite 5 * 1001 = iZ(834, 1) of the last copy of the pattern cleared.
C24_witness ==
    /\ Called("construct_iZm_segment") /\ args.vx = 5005
    /\ ~bitmap_get_bit(ret.x5, 1) /\ ~bitmap_get_bit(ret.x7, 1)
    /\ ~bitmap_get_bit(ret.x5, 2) /\ ~bitmap_get_bit(ret.x7, 2)
    /\ bitmap_get_bit(ret.x5, 3)
    /\ ~bitmap_get_bit(ret.x7, 834)

\* C26: iZ_next_prime always ends with an outcome value: it examines at most
\* max_i = 1000 segments, returns 0 with p unchanged when no candidate is a
\* probable prime, and never aborts, a backward search from a small base
\* (where yvx drops below zero) included.
C26_iZ_next_prime_outcome ==
    /\ pc # "abort"
    /\ i <= max_i
    /\ pc = "next_done" /\ ret = 0 => p = 0



\* the coordinator's read has completed
ReadDone == pc \in {"rand_kill", "rand_wait", "rand_done"} /\ cores_num >= 2

\* C22 as stated: in multi-worker random_iZprime all workers are spawned, the
\* candidate is read, then termination is signalled to every worker, then
\* each is waited for: no worker is signalled before the read has completed,
\* none is waited for before every worker was signalled, and at the return
\* every spawned worker has terminated and been reaped.
C22_random_iZprime_order ==
    /\ ReadDone => Len(kids) = cores_num
    /\ ~ReadDone => \A k \in DOMAIN kids : ~kids[k].sig
    /\ (\E k \in DOMAIN kids : kids[k].st = "reaped")
          => \A k \in DOMAIN kids : kids[k].sig
    /\ pc = "rand_done" /\ cores_num >= 2
          => \A k \in DOMAIN kids : kids[k].st = "reaped"

\* C22 amended: all workers are spawned before the read; after the read the
\* coordinator takes the workers one at a time, signalling worker i and
\* waiting for it before it signals worker i + 1: no worker is signalled
\* before the read has completed, none is waited for before it was signalled
\* itself, and at the return every spawned worker has terminated and been
\* reaped.
C22_random_iZprime_order_amended ==
    /\ ReadDone => Len(kids) = cores_num
    /\ ~ReadDone => \A k \in DOMAIN kids : ~kids[k].sig /\ kids[k].st # "reaped"
    /\ \A k \in DOMAIN kids : kids[k].st = "reaped" => kids[k].sig
    /\ \A k \in DOMAIN kids :
          kids[k].sig /\ k > 1 => kids[k - 1].st = "reaped"
    /\ pc = "rand_done" /\ cores_num >= 2
          => /\ Len(kids) = cores_num
             /\ \A k \in DOMAIN kids : kids[k].st = "reaped" /\ kids[k].sig

\* C22 witness: the call returned in multi-worker mode after reading a
\* candidate, with both workers signalled and reaped.
C22_witness ==
    /\ pc = "rand_done" /\ cores_num >= 2 /\ buf.n > 0
    /\ Len(kids) = cores_num
    /\ \A k \in DOMAIN kids : kids[k].st = "reaped" /\ kids[k].sig

\* C23: the coordinator of random_iZprime never blocks forever: under fair
\* scheduling its read returns once a worker has written a candidate, and
\* with end-of-stream once every worker has ended without writing (the
\* coordinator has closed its own write end), so the multi-worker call
\* eventually returns in both cases.
C23_random_iZprime_returns == (pc = "rand_fork") ~> (pc = "rand_done")

\* C23 witness: the multi-worker call returned after its read met
\* end-of-stream: no worker wrote, every worker has ended and was reaped.
C23_witness ==
    /\ pc = "rand_done" /\ cores_num >= 2
    /\ buf.n = 0 /\ wrote = <<>>
    /\ \A k \in DOMAIN kids : kids[k].st = "reaped"

====
